---------------------------- MODULE Spec2Model ----------------------------
(***************************************************************************)
(* A model of the multi-corpus retrieval engine of the PersonalTutor RAG   *)
(* agent: rag/metadata_schema.py (validate_metadata,                       *)
(* create_metadata_filter) and rag/tools/corpus_tools.py                   *)
(* (query_rag_corpus, search_all_corpora, search_corpus_by_name,           *)
(* import_document_to_corpus).                                             *)
(*                                                                         *)
(* Python strings whose content the code inspects or rewrites (board       *)
(* names, source URIs, passage text, citations) are sequences of           *)
(* one-character strings.  Dictionary keys and status words are TLA+       *)
(* strings.  Python None is the empty tuple and a present value v is the   *)
(* one-element tuple <<v>>.                                                *)
(***************************************************************************)
EXTENDS Integers, Sequences, FiniteSets, TLC

VARIABLES
    service,    \* the external collaborators (Vertex AI RAG): what they hold and whether they fail
    op,         \* the operation invoked last ("init" before any)
    input,      \* the arguments of that invocation
    response,   \* what the operation returned
    calls       \* the external calls the invocation issued, in order

vars == <<service, op, input, response, calls>>

None == <<>>
Some(v) == <<v>>

----------------------------------------------------------------------------
(* Python str primitives on sequences of characters.                       *)

LowerLetters == <<"a", "b", "c", "d", "e", "f", "g", "h", "i", "j", "k", "l", "m", "n", "o", "p", "q", "r", "s", "t", "u", "v", "w", "x", "y", "z">>
UpperLetters == <<"A", "B", "C", "D", "E", "F", "G", "H", "I", "J", "K", "L", "M", "N", "O", "P", "Q", "R", "S", "T", "U", "V", "W", "X", "Y", "Z">>
Digits == <<"0", "1", "2", "3", "4", "5", "6", "7", "8", "9">>

Range(f) == {f[i] : i \in DOMAIN f}

Whitespace == {" ", "\t", "\n"}
IsCapital(c) == c \in Range(UpperLetters)
IsDigit(c) == c \in Range(Digits)
\* a regex word character (\w) as far as \b is concerned
IsWordChar(c) == c \in Range(LowerLetters) \/ c \in Range(UpperLetters) \/ IsDigit(c) \/ c = "_"

IndexIn(c, letters) == CHOOSE i \in DOMAIN letters : letters[i] = c

UpperChar(c) == IF c \in Range(LowerLetters) THEN UpperLetters[IndexIn(c, LowerLetters)] ELSE c
LowerChar(c) == IF c \in Range(UpperLetters) THEN LowerLetters[IndexIn(c, UpperLetters)] ELSE c

\* str.upper(), str.lower()
StrUpper(s) == [i \in 1..Len(s) |-> UpperChar(s[i])]
StrLower(s) == [i \in 1..Len(s) |-> LowerChar(s[i])]

\* str.replace(old, new) for a one-character old and new
ReplaceChar(s, old, new) == [i \in 1..Len(s) |-> IF s[i] = old THEN new ELSE s[i]]

\* str.strip(chars): drop the leading and trailing characters that are in chars
RECURSIVE LStripChars(_, _)
LStripChars(s, chars) ==
    IF s /= <<>> /\ Head(s) \in chars THEN LStripChars(Tail(s), chars) ELSE s

RECURSIVE RStripChars(_, _)
RStripChars(s, chars) ==
    IF s /= <<>> /\ s[Len(s)] \in chars
    THEN RStripChars(SubSeq(s, 1, Len(s) - 1), chars)
    ELSE s

StripChars(s, chars) == RStripChars(LStripChars(s, chars), chars)

\* str.strip()
Strip(s) == StripChars(s, Whitespace)

\* the first index >= i at which sub occurs in s, or 0 (str.find, 1-based)
RECURSIVE FindFrom(_, _, _)
FindFrom(s, sub, i) ==
    IF i + Len(sub) - 1 > Len(s) THEN 0
    ELSE IF SubSeq(s, i, i + Len(sub) - 1) = sub THEN i
    ELSE FindFrom(s, sub, i + 1)

Contains(s, sub) == FindFrom(s, sub, 1) /= 0

\* the last index at which the character c occurs in s, or 0
RECURSIVE LastIndexOf(_, _, _)
LastIndexOf(s, c, i) ==
    IF i = 0 THEN 0 ELSE IF s[i] = c THEN i ELSE LastIndexOf(s, c, i - 1)

----------------------------------------------------------------------------
(* The board normalizations.                                               *)

\* re.sub(r'(?<!^)(?<!_)([A-Z])', r'_\1', s): an underscore goes before every
\* capital letter that is not the first character and does not follow "_"
RECURSIVE InsertUnderscoresFrom(_, _)
InsertUnderscoresFrom(s, i) ==
    IF i > Len(s) THEN <<>>
    ELSE (IF i > 1 /\ IsCapital(s[i]) /\ s[i - 1] /= "_"
          THEN <<"_", s[i]>>
          ELSE <<s[i]>>) \o InsertUnderscoresFrom(s, i + 1)

InsertUnderscores(s) == InsertUnderscoresFrom(s, 1)

\* re.sub(r'_+', '_', s)
RECURSIVE CollapseUnderscoresFrom(_, _)
CollapseUnderscoresFrom(s, i) ==
    IF i > Len(s) THEN <<>>
    ELSE (IF s[i] = "_" /\ i > 1 /\ s[i - 1] = "_" THEN <<>> ELSE <<s[i]>>)
         \o CollapseUnderscoresFrom(s, i + 1)

CollapseUnderscores(s) == CollapseUnderscoresFrom(s, 1)

\* create_metadata_filter, the "board" branch
FilterBoard(s) ==
    LET stripped == Strip(s)
        separated == ReplaceChar(ReplaceChar(stripped, "-", "_"), ".", "_")
        split == InsertUnderscores(separated)
        upper == ReplaceChar(StrUpper(split), " ", "_")
    IN  StripChars(CollapseUnderscores(upper), {"_"})

\* validate_metadata, the "board" branch
ValidateBoard(s) == ReplaceChar(StrUpper(Strip(s)), " ", "_")

\* query_rag_corpus, the stored side of the board comparison (norm_meta)
QueryNormMeta(metadata_value) ==
    LET upper == StrUpper(Strip(metadata_value))
        separated == ReplaceChar(ReplaceChar(upper, "-", "_"), ".", "_")
        split == InsertUnderscores(separated)
    IN  StripChars(CollapseUnderscores(ReplaceChar(split, " ", "_")), {"_"})

\* query_rag_corpus, the filter side of the board comparison (norm_filter)
QueryNormFilter(value) ==
    LET upper == StrUpper(Strip(value))
        separated == ReplaceChar(ReplaceChar(upper, "-", "_"), ".", "_")
    IN  StripChars(CollapseUnderscores(ReplaceChar(separated, " ", "_")), {"_"})

\* query_rag_corpus: whether a stored board passes a (normalized) filter board
BoardMatches(metadata_value, value) == QueryNormMeta(metadata_value) = QueryNormFilter(value)


----------------------------------------------------------------------------
(* Python values: a str carries its characters, an int its number.         *)

StrVal(s) == [type |-> "str", s |-> s]
IntVal(n) == [type |-> "int", n |-> n]
\* isinstance(v, str)
IsStr(v) == v.type = "str"

\* the decimal digits of a natural number
RECURSIVE NatToStr(_)
NatToStr(n) == IF n < 10 THEN <<Digits[n + 1]>> ELSE NatToStr(n \div 10) \o <<Digits[(n % 10) + 1]>>

\* str(n) of an int
IntToStr(n) == IF n < 0 THEN <<"-">> \o NatToStr(-n) ELSE NatToStr(n)

\* str(v), and v rendered inside an f-string
PyStr(v) == IF IsStr(v) THEN v.s ELSE IntToStr(v.n)

\* bool(v)
Truthy(v) == IF IsStr(v) THEN v.s /= <<>> ELSE v.n /= 0

\* the number a non-empty run of digits denotes
RECURSIVE DigitsToNat(_)
DigitsToNat(s) ==
    IF s = <<>> THEN 0 ELSE 10 * DigitsToNat(SubSeq(s, 1, Len(s) - 1)) + (IndexIn(s[Len(s)], Digits) - 1)

\* int(s) once the sign is taken off: the digits decide
ParseSigned(sign, body) ==
    IF body /= <<>> /\ \A i \in DOMAIN body : IsDigit(body[i])
    THEN Some(IF sign = "-" THEN -DigitsToNat(body) ELSE DigitsToNat(body))
    ELSE None

\* int(s) of a stripped string: one sign is accepted
ParseStripped(t) ==
    IF t /= <<>> /\ t[1] \in {"+", "-"} THEN ParseSigned(t[1], Tail(t)) ELSE ParseSigned("+", t)

\* int(s): surrounding whitespace and one sign are accepted; None stands for ValueError
ParseInt(s) == ParseStripped(Strip(s))

\* the concatenation of a sequence of sequences
RECURSIVE Flatten(_)
Flatten(seqs) == IF seqs = <<>> THEN <<>> ELSE Head(seqs) \o Flatten(Tail(seqs))

----------------------------------------------------------------------------
(* rag/metadata_schema.py                                                  *)

REQUIRED_METADATA_FIELDS == <<"board", "grade", "subject">>
OPTIONAL_METADATA_FIELDS ==
    <<"term", "chapter", "chapter_number", "publisher", "edition", "language",
      "content_type", "difficulty">>

ALLOWED_CONTENT_TYPES ==
    {<<"t", "h", "e", "o", "r", "y">>,
     <<"e", "x", "e", "r", "c", "i", "s", "e", "s">>,
     <<"s", "o", "l", "u", "t", "i", "o", "n", "s">>,
     <<"e", "x", "a", "m", "p", "l", "e", "s">>}
ALLOWED_DIFFICULTY_LEVELS ==
    {<<"b", "a", "s", "i", "c">>,
     <<"m", "e", "d", "i", "u", "m">>,
     <<"a", "d", "v", "a", "n", "c", "e", "d">>}

RecognizedFields == Range(REQUIRED_METADATA_FIELDS) \cup Range(OPTIONAL_METADATA_FIELDS)

\* key.lower() on the keys the model supplies
KeyLower(key) == IF key = "Board" THEN "board" ELSE key

\* a mutation of RequiredFieldErrors: a missing board goes unreported
RequiredFieldErrorsSkipBoard(metadata, field) ==
    IF field \notin DOMAIN metadata
    THEN IF field = "board" THEN <<>> ELSE <<[kind |-> "missing_required", field |-> field]>>
    ELSE IF ~IsStr(metadata[field])
    THEN <<[kind |-> "wrong_type", field |-> field]>>
    ELSE <<>>

\* validate_metadata, the required-field loop: the errors of one field
RequiredFieldErrors(metadata, field) ==
    IF field \notin DOMAIN metadata
    THEN <<[kind |-> "missing_required", field |-> field]>>
    ELSE IF ~IsStr(metadata[field])
    THEN <<[kind |-> "wrong_type", field |-> field]>>
    ELSE <<>>

\* a mutation of OptionalFieldErrors: the allowed values are checked in every mode
OptionalFieldErrorsAlwaysStrict(metadata, field, strict) ==
    IF field \notin DOMAIN metadata THEN <<>>
    ELSE IF ~IsStr(metadata[field])
    THEN <<[kind |-> "wrong_type", field |-> field]>>
    ELSE (IF field = "content_type" /\ metadata[field].s \notin ALLOWED_CONTENT_TYPES
          THEN <<[kind |-> "not_allowed", field |-> field]>> ELSE <<>>)
         \o
         (IF field = "difficulty" /\ metadata[field].s \notin ALLOWED_DIFFICULTY_LEVELS
          THEN <<[kind |-> "not_allowed", field |-> field]>> ELSE <<>>)

\* validate_metadata, the optional-field loop: the errors of one field
OptionalFieldErrors(metadata, field, strict) ==
    IF field \notin DOMAIN metadata THEN <<>>
    ELSE IF ~IsStr(metadata[field])
    THEN <<[kind |-> "wrong_type", field |-> field]>>
    ELSE (IF field = "content_type" /\ strict /\ metadata[field].s \notin ALLOWED_CONTENT_TYPES
          THEN <<[kind |-> "not_allowed", field |-> field]>> ELSE <<>>)
         \o
         (IF field = "difficulty" /\ strict /\ metadata[field].s \notin ALLOWED_DIFFICULTY_LEVELS
          THEN <<[kind |-> "not_allowed", field |-> field]>> ELSE <<>>)

\* validate_metadata: the normalized value of a present, well-typed field
NormalizedField(field, value) ==
    IF field = "board" THEN StrVal(ValidateBoard(value.s)) ELSE StrVal(Strip(value.s))

\* validate_metadata: the warnings of the two field loops for one field
FieldWarnings(metadata, field) ==
    IF field \in DOMAIN metadata /\ IsStr(metadata[field])
       /\ field /= "subject"
       /\ NormalizedField(field, metadata[field]) /= metadata[field]
    THEN <<[kind |-> "normalized", field |-> field]>>
    ELSE <<>>

\* validate_metadata: the errors of the required loop, then of the optional loop
ValidationErrors(metadata, strict) ==
    Flatten([i \in DOMAIN REQUIRED_METADATA_FIELDS |->
                RequiredFieldErrors(metadata, REQUIRED_METADATA_FIELDS[i])])
    \o Flatten([i \in DOMAIN OPTIONAL_METADATA_FIELDS |->
                OptionalFieldErrors(metadata, OPTIONAL_METADATA_FIELDS[i], strict)])

\* validate_metadata, the loop over the keys: one warning for every key that is not lowercase
RECURSIVE KeyWarnings(_)
KeyWarningFirst(keys, key) ==
    <<[kind |-> "key_not_lowercase", field |-> key]>> \o KeyWarnings(keys \ {key})

KeyWarnings(keys) ==
    IF keys = {} THEN <<>> ELSE KeyWarningFirst(keys, CHOOSE key \in keys : TRUE)

\* validate_metadata: the warnings of the two loops, of the unknown fields and of the keys
ValidationWarnings(metadata) ==
    Flatten([i \in DOMAIN REQUIRED_METADATA_FIELDS |->
                FieldWarnings(metadata, REQUIRED_METADATA_FIELDS[i])])
    \o Flatten([i \in DOMAIN OPTIONAL_METADATA_FIELDS |->
                FieldWarnings(metadata, OPTIONAL_METADATA_FIELDS[i])])
    \o (IF DOMAIN metadata \ RecognizedFields /= {}
        THEN <<[kind |-> "unknown_fields", fields |-> DOMAIN metadata \ RecognizedFields]>> ELSE <<>>)
    \o KeyWarnings({k \in DOMAIN metadata : k /= KeyLower(k)})

\* a mutation of NormalizedMetadata: unknown fields are kept as given
NormalizedMetadataKeepUnknown(metadata) ==
    [f \in {k \in DOMAIN metadata : IsStr(metadata[k])} |->
        IF f \in RecognizedFields THEN NormalizedField(f, metadata[f]) ELSE metadata[f]]

\* validate_metadata: the dictionary of normalized fields
NormalizedMetadata(metadata) ==
    [f \in {k \in DOMAIN metadata \cap RecognizedFields : IsStr(metadata[k])} |->
        NormalizedField(f, metadata[f])]

\* a mutation of ValidationResult: a warning makes the result invalid
ValidationResultWarningsCount(errors, warnings, normalized) ==
    [valid |-> Len(errors) = 0 /\ Len(warnings) = 0,
     errors |-> errors,
     warnings |-> warnings,
     normalized |-> IF Len(errors) = 0 /\ Len(warnings) = 0 THEN Some(normalized) ELSE None]

\* validate_metadata: the dictionary it returns
ValidationResult(errors, warnings, normalized) ==
    [valid |-> Len(errors) = 0,
     errors |-> errors,
     warnings |-> warnings,
     normalized |-> IF Len(errors) = 0 THEN Some(normalized) ELSE None]

validate_metadata(metadata, strict) ==
    ValidationResult(ValidationErrors(metadata, strict), ValidationWarnings(metadata),
                     NormalizedMetadata(metadata))

\* a mutation of create_metadata_filter: fields it does not recognize pass through
create_metadata_filter_keep_unknown(metadata_criteria) ==
    [field \in DOMAIN metadata_criteria |->
        IF field = "board"
        THEN StrVal(FilterBoard(PyStr(metadata_criteria[field])))
        ELSE StrVal(Strip(PyStr(metadata_criteria[field])))]

\* create_metadata_filter: recognized fields only, board canonicalized, the rest trimmed
create_metadata_filter(metadata_criteria) ==
    [field \in DOMAIN metadata_criteria \cap RecognizedFields |->
        IF field = "board"
        THEN StrVal(FilterBoard(PyStr(metadata_criteria[field])))
        ELSE StrVal(Strip(PyStr(metadata_criteria[field])))]

----------------------------------------------------------------------------
(* rag/tools/corpus_tools.py: query_rag_corpus, the page-number chain      *)

\* getattr(context, key, None) and context.__dict__.get(key): an attribute holds None or <<value>>
Get(d, key) == IF key \in DOMAIN d THEN d[key] ELSE None

\* metadata.get(key): a metadata dictionary holds values
MetadataGet(md, key) == IF key \in DOMAIN md THEN Some(md[key]) ELSE None

\* bool(x) of an attribute that is None or a value
TruthyOpt(x) == x /= None /\ Truthy(x[1])

\* Python's "a or b or ...": the first truthy operand, else the last one
RECURSIVE OrChain(_)
OrChain(xs) ==
    IF Len(xs) = 1 \/ TruthyOpt(Head(xs)) THEN Head(xs) ELSE OrChain(Tail(xs))

\* the hasattr chain on the context object: the first page attribute it has
FirstPageAttribute(context) ==
    IF "page_number" \in DOMAIN context THEN context["page_number"]
    ELSE IF "page" \in DOMAIN context THEN context["page"]
    ELSE IF "page_num" \in DOMAIN context THEN context["page_num"]
    ELSE IF "pageNumber" \in DOMAIN context THEN context["pageNumber"]
    ELSE None

\* the context's __dict__, consulted while page_number is None
DictPage(attr, context) ==
    IF attr /= None THEN attr
    ELSE OrChain(<<Get(context, "page_number"), Get(context, "page"),
                   Get(context, "page_num"), Get(context, "pageNumber")>>)

\* the page number the context object itself carries
DirectPage(context) == DictPage(FirstPageAttribute(context), context)

\* context.metadata if it is truthy, else context.rag_metadata if that is; <<>> for none
ContextMetadata(context) ==
    IF "metadata" \in DOMAIN context /\ DOMAIN context["metadata"] /= {}
    THEN context["metadata"]
    ELSE IF "rag_metadata" \in DOMAIN context /\ DOMAIN context["rag_metadata"] /= {}
    THEN context["rag_metadata"]
    ELSE <<>>

\* the metadata dictionary, consulted while page_number is None
MetadataPage(direct, md) ==
    IF direct /= None \/ DOMAIN md = {} THEN direct
    ELSE OrChain(<<MetadataGet(md, "page_number"), MetadataGet(md, "page"),
                   MetadataGet(md, "page_num")>>)

\* the page number after the structured sources: the object, then its metadata dict
StructuredPage(context) == MetadataPage(DirectPage(context), ContextMetadata(context))

PageMarker == <<"#", "p", "a", "g", "e", "=">>

\* s up to, not including, index k; all of s when k is 0
Before(s, k) == IF k = 0 THEN s ELSE SubSeq(s, 1, k - 1)

\* s.split(sep)[0]
SplitFirst(s, sep) == Before(s, FindFrom(s, sep, 1))

\* what follows the first occurrence of sep in s
AfterFirst(s, sep) == SubSeq(s, FindFrom(s, sep, 1) + Len(sep), Len(s))

\* source_uri.split("#page=")[1].split("&")[0]
PageFragment(source_uri) == SplitFirst(SplitFirst(AfterFirst(source_uri, PageMarker), PageMarker), <<"&">>)

\* the int the URI branch stores, None when int() raised
ParsedPage(n) == IF n = None THEN None ELSE Some(IntVal(n[1]))

\* the page number the source URI carries, None when it carries none
UriPage(source_uri) ==
    IF source_uri /= None /\ source_uri[1] /= <<>> /\ Contains(source_uri[1], PageMarker)
    THEN ParsedPage(ParseInt(PageFragment(source_uri[1])))
    ELSE None

(* The text heuristics: re.search(pattern, text, re.IGNORECASE) for the    *)
(* six page patterns.  A pattern is a literal (matched case-insensitively, *)
(* after \b when word_start), an optional ".", white space (at least       *)
(* min_space characters), an optional ":" with white space, the digits,    *)
(* and then \b (close empty) or the closing character.                     *)

PagePatterns ==
    <<[lit |-> <<"p", "a", "g", "e">>, word_start |-> TRUE, opt_dot |-> FALSE, min_space |-> 1, colon |-> FALSE, close |-> <<>>],
      [lit |-> <<"p", ".">>, word_start |-> TRUE, opt_dot |-> FALSE, min_space |-> 0, colon |-> FALSE, close |-> <<>>],
      [lit |-> <<"p", "g">>, word_start |-> TRUE, opt_dot |-> TRUE, min_space |-> 0, colon |-> FALSE, close |-> <<>>],
      [lit |-> <<"p", "a", "g", "e">>, word_start |-> TRUE, opt_dot |-> FALSE, min_space |-> 0, colon |-> TRUE, close |-> <<>>],
      [lit |-> <<"(", "p", "a", "g", "e">>, word_start |-> FALSE, opt_dot |-> FALSE, min_space |-> 1, colon |-> FALSE, close |-> <<")">>],
      [lit |-> <<"[", "p", "a", "g", "e">>, word_start |-> FALSE, opt_dot |-> FALSE, min_space |-> 1, colon |-> FALSE, close |-> <<"]">>]>>

\* the first index >= i of text that holds no white space (\s*), Len(text) + 1 if none
RECURSIVE SkipSpaces(_, _)
SkipSpaces(text, i) ==
    IF i <= Len(text) /\ text[i] \in Whitespace THEN SkipSpaces(text, i + 1) ELSE i

\* the first index >= i of text that holds no digit (\d+, greedy)
RECURSIVE DigitsEnd(_, _)
DigitsEnd(text, i) ==
    IF i <= Len(text) /\ IsDigit(text[i]) THEN DigitsEnd(text, i + 1) ELSE i

\* the end of a match: the digits from d to e - 1, then \b or the closing character
MatchClose(text, pattern, d, e) ==
    IF /\ e > d
       /\ IF pattern.close = <<>>
          THEN e > Len(text) \/ ~IsWordChar(text[e])
          ELSE e <= Len(text) /\ text[e] = pattern.close[1]
    THEN Some(DigitsToNat(SubSeq(text, d, e - 1)))
    ELSE None

\* (\d+) from index d on
MatchDigits(text, pattern, d) == MatchClose(text, pattern, d, DigitsEnd(text, d))

\* the white space from b to c - 1, then the pattern's colon and more white space
MatchSeparator(text, pattern, b, c) ==
    IF c - b < pattern.min_space THEN None
    ELSE IF ~pattern.colon THEN MatchDigits(text, pattern, c)
    ELSE IF c <= Len(text) /\ text[c] = ":" THEN MatchDigits(text, pattern, SkipSpaces(text, c + 1))
    ELSE None

\* the literal from i to a - 1 (after \b), then the optional "."
MatchLiteral(text, i, pattern, a) ==
    IF /\ a - 1 <= Len(text)
       /\ StrLower(SubSeq(text, i, a - 1)) = pattern.lit
       /\ pattern.word_start => (i = 1 \/ ~IsWordChar(text[i - 1]))
    THEN IF pattern.opt_dot /\ a <= Len(text) /\ text[a] = "."
         THEN MatchSeparator(text, pattern, a + 1, SkipSpaces(text, a + 1))
         ELSE MatchSeparator(text, pattern, a, SkipSpaces(text, a))
    ELSE None

\* the page number group(1) holds when pattern matches text at index i, else None
MatchAt(text, i, pattern) == MatchLiteral(text, i, pattern, i + Len(pattern.lit))

\* re.search: the leftmost match of pattern in text
RECURSIVE SearchFrom(_, _, _)
SearchNext(text, i, pattern, m) ==
    IF m /= None THEN m ELSE SearchFrom(text, i + 1, pattern)

SearchFrom(text, i, pattern) ==
    IF i > Len(text) THEN None ELSE SearchNext(text, i, pattern, MatchAt(text, i, pattern))

\* the loop over page_patterns: the first pattern that matches decides
RECURSIVE TextPageFrom(_, _)
PatternPage(text, k, m) ==
    IF m /= None THEN Some(IntVal(m[1])) ELSE TextPageFrom(text, k + 1)

TextPageFrom(text, k) ==
    IF k > Len(PagePatterns) THEN None ELSE PatternPage(text, k, SearchFrom(text, 1, PagePatterns[k]))

TextPage(text) == IF text = <<>> THEN None ELSE TextPageFrom(text, 1)

\* a later source of the page number is consulted only while page_number is None
FirstFound(page_number, later) == IF page_number /= None THEN page_number ELSE later

\* a mutation of ExtractPage: the text heuristic runs before the URI fragment
ExtractPageTextFirst(context, source_uri, text) ==
    FirstFound(StructuredPage(context), FirstFound(TextPage(text), UriPage(source_uri)))

\* the page number of one candidate: the structured sources, then the URI
\* fragment, then the text, each consulted only while page_number is None
ExtractPage(context, source_uri, text) ==
    FirstFound(StructuredPage(context), FirstFound(UriPage(source_uri), TextPage(text)))

\* context.text if the context has one, else ""
ContextText(context) == IF "text" \in DOMAIN context THEN context["text"] ELSE <<>>

\* the result dictionary once its page number is settled
ResultWithPage(context, text, source_uri, md, page_number) ==
    [text |-> text,
     source_uri |-> source_uri,
     relevance_score |-> Get(context, "relevance_score")]
    @@ (IF DOMAIN md /= {} THEN [metadata |-> md] ELSE <<>>)
    @@ (IF page_number /= None
        THEN [page_number |-> page_number[1]]
        ELSE [debug_info |-> [context_attributes |-> DOMAIN context, has_page_number |-> FALSE]])

\* the result dictionary of a context with the given text and source_uri
ResultFrom(context, text, source_uri) ==
    ResultWithPage(context, text, source_uri, ContextMetadata(context),
                   ExtractPage(context, source_uri, text))

\* the result dictionary built for one context
ResultOf(context) == ResultFrom(context, ContextText(context), Get(context, "source_uri"))

----------------------------------------------------------------------------
(* query_rag_corpus: client-side metadata filtering and the result loop    *)

\* the comparison of a stored value with a filter value under one key
ValueMatches(key, metadata_value, value) ==
    IF IsStr(metadata_value) /\ IsStr(value)
    THEN IF key = "board"
         THEN BoardMatches(metadata_value.s, value.s)
         ELSE StrLower(Strip(metadata_value.s)) = StrLower(Strip(value.s))
    ELSE metadata_value.type = value.type /\ metadata_value = value

\* whether one filter item (key, value) is met by the metadata of a result
FieldMatches(metadata, key, value) ==
    key \in DOMAIN metadata /\ ValueMatches(key, metadata[key], value)

\* whether a result passes the normalized filter (a non-empty dictionary)
PassesFilter(result, normalized_filter) ==
    /\ "metadata" \in DOMAIN result
    /\ \A key \in DOMAIN normalized_filter :
          FieldMatches(result["metadata"], key, normalized_filter[key])

\* a mutation of StopAfter: the loop never stops early
StopAfterNever(results, normalized_filter, top_k) == FALSE

\* the break at the end of the loop body
StopAfter(results, normalized_filter, top_k) ==
    DOMAIN normalized_filter /= {} /\ Len(results) >= top_k

\* the loop over the contexts, from the i-th on, with the results kept so far
RECURSIVE ProcessContexts(_, _, _, _, _)
\* the end of the loop body: the result was appended, the loop breaks or goes on
AfterAppend(contexts, i, results, normalized_filter, top_k) ==
    IF StopAfter(results, normalized_filter, top_k) THEN results
    ELSE ProcessContexts(contexts, i + 1, results, normalized_filter, top_k)

\* a mutation of FilterResult: a result without a relevance score is dropped
FilterResultDropsUnscored(contexts, i, results, normalized_filter, top_k, result) ==
    IF result.relevance_score = None
       \/ (DOMAIN normalized_filter /= {} /\ ~PassesFilter(result, normalized_filter))
    THEN ProcessContexts(contexts, i + 1, results, normalized_filter, top_k)
    ELSE AfterAppend(contexts, i, Append(results, result), normalized_filter, top_k)

\* the loop body once the result dictionary is built: filtered out, or appended
FilterResult(contexts, i, results, normalized_filter, top_k, result) ==
    IF DOMAIN normalized_filter /= {} /\ ~PassesFilter(result, normalized_filter)
    THEN ProcessContexts(contexts, i + 1, results, normalized_filter, top_k)
    ELSE AfterAppend(contexts, i, Append(results, result), normalized_filter, top_k)

ProcessContexts(contexts, i, results, normalized_filter, top_k) ==
    IF i > Len(contexts) THEN results
    ELSE FilterResult(contexts, i, results, normalized_filter, top_k, ResultOf(contexts[i]))

\* whether two kept results share a source_uri (None counts as a source of its own)
MultipleFromSameFile(results) ==
    \E i, j \in DOMAIN results : i /= j /\ results[i].source_uri = results[j].source_uri

\* a mutation of RetrievalCall: the request is never doubled
RetrievalCallNoDoubling(corpus_id, top_k, metadata_filter) ==
    [call |-> "retrieval_query", corpus_id |-> corpus_id, top_k |-> top_k]

\* the retrieval request query_rag_corpus sends
RetrievalCall(corpus_id, top_k, metadata_filter) ==
    [call |-> "retrieval_query",
     corpus_id |-> corpus_id,
     top_k |-> IF DOMAIN create_metadata_filter(metadata_filter) /= {} THEN top_k * 2 ELSE top_k]

\* a mutation of QueryError: the handler reports the failure without a message
QueryErrorBare(corpus_id) ==
    [status |-> "failed", corpus_id |-> corpus_id, error_message |-> "retrieval failed"]

\* query_rag_corpus: the dictionary it returns when retrieval_query raised
QueryError(corpus_id) ==
    [status |-> "error",
     corpus_id |-> corpus_id,
     error_message |-> "retrieval failed",
     message |-> [text |-> "Failed to query corpus", cause |-> "retrieval failed"]]

\* query_rag_corpus: the dictionary it returns for the results kept; note tells
\* whether the note about chunks of the same document is attached
QuerySuccess(corpus_id, query_text, metadata_filter, results, note) ==
    [status |-> "success",
     corpus_id |-> corpus_id,
     results |-> results,
     count |-> Len(results),
     query |-> query_text,
     metadata_filter |-> IF DOMAIN metadata_filter /= {} THEN Some(metadata_filter) ELSE None,
     message |-> [text |-> "Found results for query", count |-> Len(results),
                  query |-> query_text,
                  with_filter |-> DOMAIN metadata_filter /= {},
                  note |-> note],
     note |-> IF note THEN Some("Multiple chunks retrieved from the same document(s)") ELSE None]

\* query_rag_corpus after the loop over the contexts
QueryReturn(corpus_id, query_text, metadata_filter, results) ==
    QuerySuccess(corpus_id, query_text, metadata_filter, results,
                 Len(results) > 1 /\ MultipleFromSameFile(results))

\* query_rag_corpus(corpus_id, query_text, top_k, metadata_filter) against the
\* retrieval service's answer for that corpus: it raises (fails) or returns contexts.
\* metadata_filter is a dictionary, empty for None.
query_rag_corpus(retrieval, corpus_id, query_text, top_k, metadata_filter) ==
    IF retrieval.fails
    THEN QueryError(corpus_id)
    ELSE QueryReturn(corpus_id, query_text, metadata_filter,
                     ProcessContexts(retrieval.contexts, 1, <<>>,
                                     create_metadata_filter(metadata_filter), top_k))

----------------------------------------------------------------------------
(* The external collaborators.  service.corpora lists the corpora the      *)
(* directory holds, each with its resource name, its display name and the  *)
(* retrieval service's answer to a query against it.                       *)

\* path.split("/")[-1]
LastSegment(path) == SubSeq(path, LastIndexOf(path, "/", Len(path)) + 1, Len(path))

\* the retrieval service's answer for corpus_id; a corpus it does not hold is a failure
RetrievalFor(svc, corpus_id) ==
    IF \E i \in DOMAIN svc.corpora : LastSegment(svc.corpora[i].name) = corpus_id
    THEN svc.corpora[CHOOSE i \in DOMAIN svc.corpora :
                        LastSegment(svc.corpora[i].name) = corpus_id].retrieval
    ELSE [fails |-> TRUE, contexts |-> <<>>]

\* list_rag_corpora (description, create_time, files_count and status are left out)
list_rag_corpora(svc) ==
    IF svc.listing_fails
    THEN [status |-> "error",
          error_message |-> "listing failed",
          message |-> [text |-> "Failed to list RAG corpora", cause |-> "listing failed"]]
    ELSE [status |-> "success",
          corpora |-> [i \in DOMAIN svc.corpora |->
                          [id |-> LastSegment(svc.corpora[i].name),
                           name |-> svc.corpora[i].name,
                           display_name |-> svc.corpora[i].display_name]],
          count |-> Len(svc.corpora),
          message |-> [text |-> "Found RAG corpora", count |-> Len(svc.corpora)]]

\* the external calls of list_rag_corpora: the listing, then one file count per corpus
ListCalls(svc) ==
    <<[call |-> "list_corpora"]>>
    \o (IF svc.listing_fails THEN <<>>
        ELSE [i \in DOMAIN svc.corpora |-> [call |-> "list_files", corpus_name |-> svc.corpora[i].name]])

----------------------------------------------------------------------------
(* search_all_corpora                                                      *)

\* file_name.split("#")[0] of the last path segment
FileName(source_path) ==
    SplitFirst(IF Contains(source_path, <<"/">>) THEN LastSegment(source_path) ELSE source_path,
               <<"#">>)

\* the citation string of a kept result
Citation(corpus_name, corpus_id, result) ==
    <<"[", "S", "o", "u", "r", "c", "e", ":", " ">> \o corpus_name \o <<" ", "(">> \o corpus_id \o <<")", "]">>
    \o (IF result.source_uri /= None /\ result.source_uri[1] /= <<>>
        THEN <<" ", "F", "i", "l", "e", ":", " ">> \o FileName(result.source_uri[1]) ELSE <<>>)
    \o (IF "page_number" \in DOMAIN result
        THEN <<" ", "P", "a", "g", "e", ":", " ">> \o PyStr(result["page_number"]) ELSE <<>>)

\* a kept result with its provenance attached
Annotated(result, corpus_id, corpus_name) ==
    [corpus_id |-> corpus_id,
     corpus_name |-> corpus_name,
     citation |-> Citation(corpus_name, corpus_id, result)] @@ result

\* the sort key: the relevance score, 0 when it is None
ScoreKey(result) == IF result.relevance_score /= None THEN result.relevance_score[1] ELSE 0

\* sorted with x put after the first k of it
InsertAt(sorted, x, k) == SubSeq(sorted, 1, k) \o <<x>> \o SubSeq(sorted, k + 1, Len(sorted))

\* a mutation of InsertByScore: x is put before the elements whose key is its own
InsertByScoreBeforeEqual(sorted, x) ==
    InsertAt(sorted, x, Cardinality({i \in DOMAIN sorted : ScoreKey(sorted[i]) > ScoreKey(x)}))

\* x put behind the elements of sorted whose key is at least its own
InsertByScore(sorted, x) ==
    InsertAt(sorted, x, Cardinality({i \in DOMAIN sorted : ScoreKey(sorted[i]) >= ScoreKey(x)}))

\* list.sort(key, reverse=True): descending by key, equal keys keep their order
RECURSIVE SortByScore(_)
SortByScore(results) ==
    IF results = <<>> THEN <<>>
    ELSE InsertByScore(SortByScore(SubSeq(results, 1, Len(results) - 1)), results[Len(results)])

\* what one corpus adds to the merged results: its annotated results if its query succeeded
CorpusContribution(corpus_results, corpus_id, corpus_name) ==
    IF corpus_results.status = "success"
    THEN [i \in DOMAIN corpus_results.results |->
             Annotated(corpus_results.results[i], corpus_id, corpus_name)]
    ELSE <<>>

\* a mutation of Accumulate: a corpus is entered whether or not it kept a passage
AccumulateAlways(acc, corpus_id, corpus_name, call, corpus_specific_results) ==
    [all_results |-> acc.all_results \o corpus_specific_results,
     corpus_results_map |->
         (corpus_name :> [corpus_id |-> corpus_id,
                          corpus_name |-> corpus_name,
                          results |-> corpus_specific_results,
                          count |-> Len(corpus_specific_results)])
         @@ acc.corpus_results_map,
     searched_corpora |-> Append(acc.searched_corpora, corpus_name),
     calls |-> Append(acc.calls, call)]

\* the accumulators after one corpus: acc holds all_results, corpus_results_map,
\* searched_corpora and the retrieval calls issued so far
Accumulate(acc, corpus_id, corpus_name, call, corpus_specific_results) ==
    IF corpus_specific_results = <<>> THEN [acc EXCEPT !.calls = Append(@, call)]
    ELSE [all_results |-> acc.all_results \o corpus_specific_results,
          corpus_results_map |->
              (corpus_name :> [corpus_id |-> corpus_id,
                               corpus_name |-> corpus_name,
                               results |-> corpus_specific_results,
                               count |-> Len(corpus_specific_results)])
              @@ acc.corpus_results_map,
          searched_corpora |-> Append(acc.searched_corpora, corpus_name),
          calls |-> Append(acc.calls, call)]

\* the loop body for one corpus, given what query_rag_corpus returned for it
AfterQuery(acc, corpus, top_k_per_corpus, metadata_filter, corpus_results) ==
    Accumulate(acc, corpus.id, corpus.display_name,
               RetrievalCall(corpus.id, top_k_per_corpus, metadata_filter),
               CorpusContribution(corpus_results, corpus.id, corpus.display_name))

\* the query search_all_corpora sends to one corpus
QueryCorpus(svc, corpus, query_text, top_k_per_corpus, metadata_filter) ==
    query_rag_corpus(RetrievalFor(svc, corpus.id), corpus.id, query_text,
                     top_k_per_corpus, metadata_filter)

\* a mutation of SearchLoop: the first failed query ends the loop
RECURSIVE SearchLoopAbort(_, _, _, _, _, _, _)
SearchLoopAbort(svc, all_corpora, i, acc, query_text, top_k_per_corpus, metadata_filter) ==
    IF i > Len(all_corpora) \/ (i > 1 /\ RetrievalFor(svc, all_corpora[i - 1].id).fails) THEN acc
    ELSE SearchLoopAbort(svc, all_corpora, i + 1,
                         AfterQuery(acc, all_corpora[i], top_k_per_corpus, metadata_filter,
                                    QueryCorpus(svc, all_corpora[i], query_text,
                                                top_k_per_corpus, metadata_filter)),
                         query_text, top_k_per_corpus, metadata_filter)

\* the loop over all_corpora from the i-th on
RECURSIVE SearchLoop(_, _, _, _, _, _, _)
SearchLoop(svc, all_corpora, i, acc, query_text, top_k_per_corpus, metadata_filter) ==
    IF i > Len(all_corpora) THEN acc
    ELSE SearchLoop(svc, all_corpora, i + 1,
                    AfterQuery(acc, all_corpora[i], top_k_per_corpus, metadata_filter,
                               QueryCorpus(svc, all_corpora[i], query_text,
                                           top_k_per_corpus, metadata_filter)),
                    query_text, top_k_per_corpus, metadata_filter)

\* one line of citations_summary
SummaryLine(corpus_name, corpus_data) ==
    corpus_name \o <<" ", "(">> \o corpus_data.corpus_id \o <<")", ":", " ">>
    \o IntToStr(corpus_data.count) \o <<" ", "r", "e", "s", "u", "l", "t", "s">>

\* search_all_corpora: what it returns when the listing failed
SearchListError(corpora_response) ==
    [status |-> "error",
     error_message |-> [text |-> "Failed to list corpora", cause |-> corpora_response.error_message],
     message |-> [text |-> "Failed to search all corpora - could not retrieve corpus list"]]

\* search_all_corpora: what it returns when there is no corpus
SearchNoCorpora ==
    [status |-> "warning",
     message |-> [text |-> "No corpora found to search in"]]

\* search_all_corpora: what it returns after the loop and the sort
SearchSuccess(acc, all_results, query_text, metadata_filter) ==
    [status |-> "success",
     results |-> all_results,
     corpus_results |-> acc.corpus_results_map,
     searched_corpora |-> acc.searched_corpora,
     citations_summary |->
         [k \in DOMAIN acc.searched_corpora |->
             SummaryLine(acc.searched_corpora[k],
                         acc.corpus_results_map[acc.searched_corpora[k]])],
     count |-> Len(all_results),
     query |-> query_text,
     metadata_filter |-> IF DOMAIN metadata_filter /= {} THEN Some(metadata_filter) ELSE None,
     message |-> [text |-> "Found results for query across corpora",
                  count |-> Len(all_results),
                  corpora |-> Len(acc.searched_corpora),
                  with_filter |-> DOMAIN metadata_filter /= {}],
     citation_note |-> "Each result includes a citation indicating its source corpus and file."]

\* search_all_corpora after the loop: the response and the external calls issued
SearchFinish(svc, acc, query_text, metadata_filter) ==
    [response |-> SearchSuccess(acc, SortByScore(acc.all_results), query_text, metadata_filter),
     calls |-> ListCalls(svc) \o acc.calls]

\* a mutation of SearchListed: a failed listing does not end the search
SearchListedNoAbort(svc, corpora_response, query_text, top_k_per_corpus, metadata_filter) ==
    IF svc.corpora = <<>>
    THEN [response |-> SearchNoCorpora, calls |-> ListCalls(svc)]
    ELSE SearchFinish(svc,
                      SearchLoop(svc,
                                 [i \in DOMAIN svc.corpora |->
                                     [id |-> LastSegment(svc.corpora[i].name),
                                      name |-> svc.corpora[i].name,
                                      display_name |-> svc.corpora[i].display_name]],
                                 1,
                                 [all_results |-> <<>>, corpus_results_map |-> <<>>,
                                  searched_corpora |-> <<>>, calls |-> <<>>],
                                 query_text, top_k_per_corpus, metadata_filter),
                      query_text, metadata_filter)

\* search_all_corpora once list_rag_corpora has answered
SearchListed(svc, corpora_response, query_text, top_k_per_corpus, metadata_filter) ==
    IF corpora_response.status /= "success"
    THEN [response |-> SearchListError(corpora_response), calls |-> ListCalls(svc)]
    ELSE IF corpora_response.corpora = <<>>
    THEN [response |-> SearchNoCorpora, calls |-> ListCalls(svc)]
    ELSE SearchFinish(svc,
                      SearchLoop(svc, corpora_response.corpora, 1,
                                 [all_results |-> <<>>, corpus_results_map |-> <<>>,
                                  searched_corpora |-> <<>>, calls |-> <<>>],
                                 query_text, top_k_per_corpus, metadata_filter),
                      query_text, metadata_filter)

\* search_all_corpora: what it returns and the external calls it issues
SearchAllRun(svc, query_text, top_k_per_corpus, metadata_filter) ==
    SearchListed(svc, list_rag_corpora(svc), query_text, top_k_per_corpus, metadata_filter)

search_all_corpora(svc, query_text, top_k_per_corpus, metadata_filter) ==
    SearchAllRun(svc, query_text, top_k_per_corpus, metadata_filter).response

----------------------------------------------------------------------------
(* import_document_to_corpus (chunk_size and chunk_overlap are left at     *)
(* None, so they are not passed on).  rag_metadata is a dictionary, empty  *)
(* for None: the code treats both alike.                                   *)

\* ', '.join(errors): the errors with the separator between them
RECURSIVE JoinErrors(_)
JoinErrors(errors) ==
    IF Len(errors) <= 1 THEN errors
    ELSE <<Head(errors), ", ">> \o JoinErrors(Tail(errors))

\* the metadata_validation entry of the response
MetadataValidation(validation_result) ==
    [valid |-> validation_result.valid,
     errors |-> validation_result.errors,
     warnings |-> validation_result.warnings]

\* the import request: rag_metadata is passed only when normalized_metadata is truthy
ImportCall(corpus_id, gcs_uri, normalized_metadata) ==
    [call |-> "import_files", corpus_id |-> corpus_id, paths |-> <<gcs_uri>>]
    @@ (IF normalized_metadata /= None /\ DOMAIN normalized_metadata[1] /= {}
        THEN [rag_metadata |-> normalized_metadata[1]] ELSE <<>>)

\* what is returned when the metadata is invalid
ImportInvalid(corpus_id, validation_result) ==
    [status |-> "error",
     corpus_id |-> corpus_id,
     error_message |-> [text |-> "Metadata validation failed",
                        joined |-> JoinErrors(validation_result.errors)],
     metadata_validation |-> MetadataValidation(validation_result),
     message |-> [text |-> "Failed to import document: Invalid metadata",
                  joined |-> JoinErrors(validation_result.errors)]]

\* what is returned when rag.import_files raised
ImportError(corpus_id) ==
    [status |-> "error",
     corpus_id |-> corpus_id,
     error_message |-> "import failed",
     message |-> [text |-> "Failed to import document", cause |-> "import failed"]]

\* what is returned after the import
ImportSuccess(corpus_id, gcs_uri, metadata_validation, normalized_metadata) ==
    [status |-> "success",
     corpus_id |-> corpus_id,
     message |-> [text |-> "Successfully imported document", gcs_uri |-> gcs_uri,
                  corpus_id |-> corpus_id]]
    @@ (IF metadata_validation /= None
        THEN [metadata_validation |-> metadata_validation[1], metadata |-> normalized_metadata]
        ELSE <<>>)

\* the import itself: the request is sent, the service imports or raises
ImportFiles(svc, corpus_id, gcs_uri, metadata_validation, normalized_metadata) ==
    [response |-> IF svc.import_fails THEN ImportError(corpus_id)
                  ELSE ImportSuccess(corpus_id, gcs_uri, metadata_validation, normalized_metadata),
     calls |-> <<ImportCall(corpus_id, gcs_uri, normalized_metadata)>>]

\* a mutation of ImportValidated: the import goes ahead whatever the validation said
ImportValidatedUngated(svc, corpus_id, gcs_uri, validation_result) ==
    ImportFiles(svc, corpus_id, gcs_uri, Some(MetadataValidation(validation_result)),
                validation_result.normalized)

\* the gate: invalid metadata returns before the import
ImportValidated(svc, corpus_id, gcs_uri, validation_result) ==
    IF ~validation_result.valid
    THEN [response |-> ImportInvalid(corpus_id, validation_result), calls |-> <<>>]
    ELSE ImportFiles(svc, corpus_id, gcs_uri, Some(MetadataValidation(validation_result)),
                     validation_result.normalized)

\* a mutation of ImportRun: valid metadata is passed on as the caller gave it
ImportRunRaw(svc, corpus_id, gcs_uri, rag_metadata) ==
    IF DOMAIN rag_metadata = {} THEN ImportFiles(svc, corpus_id, gcs_uri, None, None)
    ELSE IF ~validate_metadata(rag_metadata, FALSE).valid
    THEN [response |-> ImportInvalid(corpus_id, validate_metadata(rag_metadata, FALSE)),
          calls |-> <<>>]
    ELSE ImportFiles(svc, corpus_id, gcs_uri,
                     Some(MetadataValidation(validate_metadata(rag_metadata, FALSE))),
                     Some(rag_metadata))

\* import_document_to_corpus: what it returns and the external calls it issues
ImportRun(svc, corpus_id, gcs_uri, rag_metadata) ==
    IF DOMAIN rag_metadata /= {}
    THEN ImportValidated(svc, corpus_id, gcs_uri, validate_metadata(rag_metadata, FALSE))
    ELSE ImportFiles(svc, corpus_id, gcs_uri, None, None)

import_document_to_corpus(svc, corpus_id, gcs_uri, rag_metadata) ==
    ImportRun(svc, corpus_id, gcs_uri, rag_metadata).response

----------------------------------------------------------------------------
(* search_corpus_by_name.  corpus_name is None (a caller passing no name)  *)
(* or Some(characters).  A corpus without a display name has the empty     *)
(* one: the code treats a missing, a None and an empty display name alike. *)

\* the top_k query_rag_corpus takes when it is given none (rag.config)
RAG_DEFAULT_TOP_K == 10

\* the condition of the loop over the corpora; evaluating it raises when a
\* corpus has a display name and corpus_name has no strip()
NameTestRaises(display_name, corpus_name) == display_name /= <<>> /\ corpus_name = None

NameMatches(display_name, corpus_name) ==
    /\ display_name /= <<>>
    /\ StrLower(Strip(display_name)) = StrLower(Strip(corpus_name[1]))

\* a mutation of FindCorpus: a later match replaces an earlier one
RECURSIVE FindCorpusLast(_, _, _)
FindCorpusLast(corpora, corpus_name, i) ==
    IF i > Len(corpora) THEN [raised |-> FALSE, target_corpus |-> None]
    ELSE IF NameTestRaises(corpora[i].display_name, corpus_name)
         THEN [raised |-> TRUE, target_corpus |-> None]
    ELSE IF FindCorpusLast(corpora, corpus_name, i + 1).target_corpus /= None
         THEN FindCorpusLast(corpora, corpus_name, i + 1)
    ELSE IF NameMatches(corpora[i].display_name, corpus_name)
         THEN [raised |-> FALSE, target_corpus |-> Some(corpora[i])]
    ELSE [raised |-> FALSE, target_corpus |-> None]

\* the loop over the corpora from the i-th on: it raises, or ends with
\* target_corpus None or the first corpus whose name matches
RECURSIVE FindCorpus(_, _, _)
FindCorpus(corpora, corpus_name, i) ==
    IF i > Len(corpora) THEN [raised |-> FALSE, target_corpus |-> None]
    ELSE IF NameTestRaises(corpora[i].display_name, corpus_name)
         THEN [raised |-> TRUE, target_corpus |-> None]
    ELSE IF NameMatches(corpora[i].display_name, corpus_name)
         THEN [raised |-> FALSE, target_corpus |-> Some(corpora[i])]
    ELSE FindCorpus(corpora, corpus_name, i + 1)

\* search_corpus_by_name: the dictionary it returns when the listing failed
NamedListError(corpus_name) ==
    [status |-> "error",
     error_message |-> [text |-> "Failed to list corpora to find", corpus_name |-> corpus_name],
     message |-> [text |-> "Could not find corpus because listing corpora failed",
                  corpus_name |-> corpus_name]]

\* search_corpus_by_name: the dictionary it returns when no corpus matched
NamedNotFound(corpus_name) ==
    [status |-> "error",
     message |-> [text |-> "Error: Corpus with name not found", corpus_name |-> corpus_name]]

\* search_corpus_by_name: the dictionary it returns when its own code raised
NamedUnexpected ==
    [status |-> "error",
     error_message |-> "name test failed",
     message |-> [text |-> "An unexpected error occurred while searching by name",
                  cause |-> "name test failed"]]

\* search_corpus_by_name: the query against the corpus found
NamedQuery(svc, corpus_id, query_text, metadata_filter) ==
    [response |-> query_rag_corpus(RetrievalFor(svc, corpus_id), corpus_id, query_text,
                                   RAG_DEFAULT_TOP_K, metadata_filter),
     calls |-> ListCalls(svc) \o <<RetrievalCall(corpus_id, RAG_DEFAULT_TOP_K, metadata_filter)>>]

\* search_corpus_by_name after the loop over the corpora
NamedResolved(svc, found, corpus_name, query_text, metadata_filter) ==
    IF found.raised
    THEN [response |-> NamedUnexpected, calls |-> ListCalls(svc)]
    ELSE IF found.target_corpus = None
    THEN [response |-> NamedNotFound(corpus_name), calls |-> ListCalls(svc)]
    ELSE NamedQuery(svc, found.target_corpus[1].id, query_text, metadata_filter)

\* search_corpus_by_name once list_rag_corpora has answered
NamedListed(svc, corpora_response, corpus_name, query_text, metadata_filter) ==
    IF corpora_response.status /= "success"
    THEN [response |-> NamedListError(corpus_name), calls |-> ListCalls(svc)]
    ELSE NamedResolved(svc, FindCorpus(corpora_response.corpora, corpus_name, 1),
                       corpus_name, query_text, metadata_filter)

\* the return value and the external calls of one search_corpus_by_name invocation
SearchByNameRun(svc, corpus_name, query_text, metadata_filter) ==
    NamedListed(svc, list_rag_corpora(svc), corpus_name, query_text, metadata_filter)

search_corpus_by_name(svc, corpus_name, query_text, metadata_filter) ==
    SearchByNameRun(svc, corpus_name, query_text, metadata_filter).response

----------------------------------------------------------------------------
(* The operations as actions.  An invocation reads its arguments from      *)
(* input and the collaborators' state from service, and leaves its return  *)
(* value in response and its external calls in calls.                      *)

ValidateMetadata ==
    /\ op' = "validate_metadata"
    /\ response' = validate_metadata(input.metadata, input.strict)
    /\ calls' = <<>>
    /\ UNCHANGED <<service, input>>

CreateMetadataFilter ==
    /\ op' = "create_metadata_filter"
    /\ response' = create_metadata_filter(input.metadata_filter)
    /\ calls' = <<>>
    /\ UNCHANGED <<service, input>>

QueryRagCorpus ==
    /\ op' = "query_rag_corpus"
    /\ response' = query_rag_corpus(RetrievalFor(service, input.corpus_id), input.corpus_id,
                                    input.query_text, input.top_k, input.metadata_filter)
    /\ calls' = <<RetrievalCall(input.corpus_id, input.top_k, input.metadata_filter)>>
    /\ UNCHANGED <<service, input>>

SearchAllCorpora ==
    /\ op' = "search_all_corpora"
    /\ \E run \in {SearchAllRun(service, input.query_text, input.top_k, input.metadata_filter)} :
          response' = run.response /\ calls' = run.calls
    /\ UNCHANGED <<service, input>>

MaxImports == 2       \* most documents the import service takes in

\* the import service keeps what it imported (service.imported)
ImportDocumentToCorpus ==
    /\ Len(service.imported) < MaxImports
    /\ op' = "import_document_to_corpus"
    /\ \E run \in {ImportRun(service, input.corpus_id, input.gcs_uri, input.metadata)} :
          /\ response' = run.response
          /\ calls' = run.calls
          /\ service' = [service EXCEPT !.imported =
                            IF run.calls /= <<>> /\ ~service.import_fails
                            THEN Append(@, run.calls[1]) ELSE @]
    /\ UNCHANGED input

SearchCorpusByName ==
    /\ op' = "search_corpus_by_name"
    /\ \E run \in {SearchByNameRun(service, input.corpus_name, input.query_text,
                                   input.metadata_filter)} :
          response' = run.response /\ calls' = run.calls
    /\ UNCHANGED <<service, input>>

----------------------------------------------------------------------------
(* Bounds and input sets.                                                  *)

MaxBoardLen == 3      \* longest stored board name drawn
MaxFilterLen == 2     \* longest filter board name drawn

\* the characters board names are drawn from: a lower-case and an upper-case
\* letter and every separator the normalizers treat
BoardAlphabet == {"a", "B", " ", "_", "-", "."}

StringsUpTo(alphabet, n) == UNION {[1..k -> alphabet] : k \in 0..n}

TamilNaduBoardSpaced == <<"T", "a", "m", "i", "l", " ", "N", "a", "d", "u", " ", "B", "o", "a", "r", "d">>
TamilNaduBoardCamel == <<"T", "a", "m", "i", "l", "N", "a", "d", "u", "B", "o", "a", "r", "d">>
TamilNaduBoardUpper == <<"T", "A", "M", "I", "L", "_", "N", "A", "D", "U", "_", "B", "O", "A", "R", "D">>

\* a tag set with the given board and fixed grade and subject
TagsWithBoard(board) ==
    [board |-> StrVal(board), grade |-> StrVal(<<"1", "0">>), subject |-> StrVal(<<"M", "a", "t", "h">>)]

\* a directory of one corpus that answers every query with the given contexts
OneCorpus(contexts) ==
    [listing_fails |-> FALSE,
     corpora |-> <<[name |-> <<"r", "/", "4", "2">>, display_name |-> <<"S", "c", "i", "e", "n", "c", "e">>,
                    retrieval |-> [fails |-> FALSE, contexts |-> contexts]]>>]

\* the invocation arguments, shared by all operations
Arguments(metadata, strict, metadata_filter, top_k) ==
    [metadata |-> metadata, strict |-> strict, metadata_filter |-> metadata_filter,
     corpus_id |-> <<"4", "2">>, query_text |-> "q", top_k |-> top_k]

----------------------------------------------------------------------------
(* SpecBoard: one document whose board tag is m, stored either as given or *)
(* as validate_metadata normalizes it, and a query filter on board f.      *)

BoardPairs ==
    (StringsUpTo(BoardAlphabet, MaxBoardLen) \X StringsUpTo(BoardAlphabet, MaxFilterLen))
    \cup {<<TamilNaduBoardSpaced, TamilNaduBoardCamel>>,
          <<TamilNaduBoardSpaced, TamilNaduBoardUpper>>,
          <<TamilNaduBoardSpaced, TamilNaduBoardSpaced>>,
          <<<<"B", "a">>, <<"B", " ", "a">>>>}

InitBoard ==
    /\ op = "init"
    /\ response = None
    /\ calls = <<>>
    /\ \E pair \in BoardPairs, ingested \in BOOLEAN :
          /\ input = Arguments(TagsWithBoard(pair[1]), FALSE, [board |-> StrVal(pair[2])], 1)
                     @@ [ingested |-> ingested]
          /\ service = OneCorpus(<<[text |-> <<>>,
                                    source_uri |-> None,
                                    relevance_score |-> None,
                                    metadata |-> IF ingested
                                                 THEN validate_metadata(TagsWithBoard(pair[1]), FALSE).normalized[1]
                                                 ELSE TagsWithBoard(pair[1])]>>)

NextBoard == CreateMetadataFilter \/ ValidateMetadata \/ QueryRagCorpus

SpecBoard == InitBoard /\ [][NextBoard]_vars

\* the board tag of the stored document and the board the query filters on
StoredBoard == service.corpora[1].retrieval.contexts[1].metadata.board.s
FilterBoardGiven == input.metadata_filter.board.s

(* C1: board normalization in create_metadata_filter is idempotent:        *)
(* normalizing the board value it returned yields that value again.        *)
C1_BoardNormalizationIdempotent ==
    op = "create_metadata_filter" => create_metadata_filter(response) = response

(* C2: a passage stored with the board validate_metadata produces for      *)
(* "Tamil Nadu Board" is kept by query_rag_corpus under the filter         *)
(* board = "TamilNaduBoard" and under board = "TAMIL_NADU_BOARD".          *)
C2_FilterSymmetry ==
    (/\ op = "query_rag_corpus"
     /\ input.ingested
     /\ input.metadata.board.s = TamilNaduBoardSpaced
     /\ FilterBoardGiven \in {TamilNaduBoardCamel, TamilNaduBoardUpper})
    => response.status = "success" /\ response.count = 1

(* C3: the passage passes the board check of query_rag_corpus exactly when *)
(* create_metadata_filter normalizes the stored board and the filter board *)
(* to the same value.                                                      *)
C3_BoardCheckIsFilterNormalizer ==
    op = "query_rag_corpus" =>
        (response.count = 1
         <=> create_metadata_filter([board |-> StrVal(StoredBoard)])
             = create_metadata_filter([board |-> StrVal(FilterBoardGiven)]))

(* C4: for every board string validate_metadata accepts, the normalized    *)
(* board it returns is the board create_metadata_filter returns for it.    *)
C4_ValidatorAgreesWithFilterNormalizer ==
    (op = "validate_metadata" /\ response.valid) =>
        response.normalized[1].board = create_metadata_filter([board |-> input.metadata.board]).board

(* C11: after a successful validate_metadata the normalized board is      *)
(* upper-cased with its separators collapsed to single underscores (no run *)
(* of underscores, no space, "-" or "."), and every field of normalized is *)
(* a string without leading or trailing white space.                       *)
C11_NormalizedBoardCanonical ==
    (op = "validate_metadata" /\ response.valid) =>
        /\ response.normalized[1].board.s = StrUpper(response.normalized[1].board.s)
        /\ ~Contains(response.normalized[1].board.s, <<"_", "_">>)
        /\ \A i \in DOMAIN response.normalized[1].board.s :
              response.normalized[1].board.s[i] \notin {" ", "-", "."}
        /\ \A f \in DOMAIN response.normalized[1] :
              /\ IsStr(response.normalized[1][f])
              /\ Strip(response.normalized[1][f].s) = response.normalized[1][f].s

(* C12: whenever validate_metadata returns valid = true, the normalized    *)
(* board, grade and subject are non-empty strings.                         *)
C12_RequiredFieldsNonEmpty ==
    (op = "validate_metadata" /\ response.valid) =>
        \A f \in Range(REQUIRED_METADATA_FIELDS) :
            /\ f \in DOMAIN response.normalized[1]
            /\ IsStr(response.normalized[1][f])
            /\ response.normalized[1][f].s /= <<>>

----------------------------------------------------------------------------
(* SpecQuery: one corpus and one query_rag_corpus invocation.  The         *)
(* retrieval service answers either with a single candidate drawn from     *)
(* every combination of page sources, or with a list of candidates that    *)
(* differ in metadata, source and score.                                   *)

MaxTopK == 2          \* largest top_k drawn
MaxContexts == 3      \* longest candidate list the retrieval service returns

UriWithPage == <<"g", "s", ":", "/", "/", "b", "/", "f", ".", "p", "d", "f", "#", "p", "a", "g", "e", "=", "1", "2">>
UriPlain == <<"g", "s", ":", "/", "/", "b", "/", "u", "n", "i", "t", "3", ".", "p", "d", "f">>
UriBadPage == <<"g", "s", ":", "/", "/", "b", "/", "f", ".", "p", "d", "f", "#", "p", "a", "g", "e", "=", "x">>
TextWithPage == <<"s", "e", "e", " ", "p", "a", "g", "e", " ", "4", "5">>
TextWithPg == <<"P", "g", ".", " ", "7", ")">>
TextPlain == <<"n", "o", " ", "n", "u", "m", "b", "e", "r">>

\* the page attributes a context object may carry
PageAttributeChoices ==
    {<<>>,
     [page_number |-> Some(IntVal(3))],
     [page_number |-> None, page |-> Some(IntVal(4))],
     [pageNumber |-> Some(IntVal(0))]}

\* the metadata a context object may carry, with and without a page entry
PageMetadataChoices ==
    {<<>>,
     [metadata |-> [board |-> StrVal(<<"A">>)]],
     [metadata |-> [board |-> StrVal(<<"A">>), page |-> IntVal(9)]],
     [metadata |-> [page_number |-> IntVal(0)]],
     [rag_metadata |-> [page_num |-> StrVal(<<"8">>)]]}

SourceUriChoices == {None, Some(UriWithPage), Some(UriPlain), Some(UriBadPage)}
TextChoices == {<<>>, TextWithPage, TextWithPg, TextPlain}

PageContexts ==
    {[text |-> text, source_uri |-> uri, relevance_score |-> None] @@ attrs @@ md :
        text \in TextChoices, uri \in SourceUriChoices,
        attrs \in PageAttributeChoices, md \in PageMetadataChoices}

\* candidates that differ in what the filter and the merge look at
FilterContexts ==
    {[text |-> <<>>, source_uri |-> Some(UriPlain), relevance_score |-> Some(2),
      metadata |-> [board |-> StrVal(<<"A">>), grade |-> StrVal(<<"1">>)]],
     [text |-> <<>>, source_uri |-> Some(UriPlain), relevance_score |-> Some(1),
      metadata |-> [board |-> StrVal(<<"a">>), grade |-> StrVal(<<"2">>)]],
     [text |-> <<>>, source_uri |-> Some(UriWithPage), relevance_score |-> None,
      metadata |-> [board |-> StrVal(<<"B">>), grade |-> IntVal(1)]],
     [text |-> TextWithPage, source_uri |-> None, relevance_score |-> Some(3)],
     [text |-> <<>>, source_uri |-> None, relevance_score |-> Some(2),
      metadata |-> [grade |-> StrVal(<<" ", "1">>)]]}

SeqsUpTo(S, n) == UNION {[1..k -> S] : k \in 0..n}

QueryFilters ==
    {<<>>,
     [board |-> StrVal(<<"a">>)],
     [grade |-> StrVal(<<"1", " ">>)],
     [board |-> StrVal(<<"A">>), grade |-> StrVal(<<"1">>)],
     [shelf |-> StrVal(<<"x">>)]}

InitQuery ==
    /\ op = "init"
    /\ response = None
    /\ calls = <<>>
    /\ \E contexts \in {<<c>> : c \in PageContexts} \cup SeqsUpTo(FilterContexts, MaxContexts),
          fails \in BOOLEAN :
          service = [listing_fails |-> FALSE,
                     corpora |-> <<[name |-> <<"r", "/", "4", "2">>, display_name |-> <<"S", "c", "i", "e", "n", "c", "e">>,
                                    retrieval |-> [fails |-> fails,
                                                   contexts |-> IF fails THEN <<>> ELSE contexts]]>>]
    /\ \E top_k \in 0..MaxTopK, metadata_filter \in QueryFilters :
          input = Arguments(<<>>, FALSE, metadata_filter, top_k)

NextQuery == QueryRagCorpus \/ CreateMetadataFilter

SpecQuery == InitQuery /\ [][NextQuery]_vars

\* the candidates the retrieval service returned to the invocation
Candidates == service.corpora[1].retrieval.contexts

\* the filter in force: the recognized, normalized part of the caller's filter
ActiveFilter == create_metadata_filter(input.metadata_filter)

\* the page number a result carries, None when it carries none
PageOf(result) == IF "page_number" \in DOMAIN result THEN Some(result["page_number"]) ELSE None

(* C8: with a metadata filter holding at least one recognized field and    *)
(* top_k >= 1, query_rag_corpus never returns more than top_k results,     *)
(* however many candidates match the filter.                               *)
C8_TopKCapUnderFiltering ==
    (/\ op = "query_rag_corpus"
     /\ response.status = "success"
     /\ DOMAIN ActiveFilter /= {}
     /\ input.top_k >= 1)
    => Len(response.results) <= input.top_k /\ response.count <= input.top_k

\* reached: more candidates match the filter than top_k, and top_k are returned
C8_Witness ==
    /\ op = "query_rag_corpus"
    /\ response.status = "success"
    /\ DOMAIN ActiveFilter /= {}
    /\ Cardinality({i \in DOMAIN Candidates :
                       PassesFilter(ResultOf(Candidates[i]), ActiveFilter)}) > input.top_k
    /\ Len(response.results) = input.top_k

(* C9: every candidate gets at most one page number, taken from the first  *)
(* source that yields one: the structured field of the object or its       *)
(* metadata, then the "#page=N" fragment of the source URI, then a page    *)
(* pattern in the text; with no structured field, the URI                  *)
(* gs://b/f.pdf#page=12 and text holding "page 45" it is 12.               *)
C9_PageExtractionPriority ==
    (op = "query_rag_corpus" /\ response.status = "success" /\ DOMAIN ActiveFilter = {})
    => /\ Len(response.results) = Len(Candidates)
       /\ \A i \in DOMAIN Candidates :
             LET context == Candidates[i]
                 structured == StructuredPage(context)
                 from_uri == UriPage(Get(context, "source_uri"))
                 from_text == TextPage(context.text)
                 page == PageOf(response.results[i])
             IN  /\ structured /= None => page = structured
                 /\ (structured = None /\ from_uri /= None) => page = from_uri
                 /\ (structured = None /\ from_uri = None) => page = from_text
                 /\ (/\ structured = None
                     /\ Get(context, "source_uri") = Some(UriWithPage)
                     /\ Contains(context.text, <<"p", "a", "g", "e", " ", "4", "5">>))
                    => page = Some(IntVal(12))

\* reached: no structured page, the URI says 12 and the text says 45
C9_Witness ==
    /\ op = "query_rag_corpus"
    /\ response.status = "success"
    /\ Len(Candidates) = 1
    /\ StructuredPage(Candidates[1]) = None
    /\ Get(Candidates[1], "source_uri") = Some(UriWithPage)
    /\ Candidates[1].text = TextWithPage
    /\ TextPage(Candidates[1].text) = Some(IntVal(45))
    /\ Len(response.results) = 1
    /\ PageOf(response.results[1]) = Some(IntVal(12))

(* C22: query_rag_corpus asks the retrieval service for 2 * top_k          *)
(* candidates whenever the caller supplied a metadata filter (a non-empty  *)
(* dictionary) and for top_k candidates when it supplied none.             *)
C22_RequestSizeFollowsSuppliedFilter ==
    op = "query_rag_corpus" =>
        /\ Len(calls) = 1
        /\ calls[1].top_k = IF DOMAIN input.metadata_filter /= {}
                            THEN 2 * input.top_k
                            ELSE input.top_k

(* C22 as amended: query_rag_corpus asks the retrieval service for         *)
(* 2 * top_k candidates whenever the caller's metadata filter holds at     *)
(* least one recognized field, and for top_k candidates otherwise (no      *)
(* filter, an empty one, or one with unrecognized fields only).            *)
C22_RequestSizeFollowsRecognizedFilter ==
    op = "query_rag_corpus" =>
        /\ Len(calls) = 1
        /\ calls[1].call = "retrieval_query"
        /\ calls[1].top_k = IF DOMAIN input.metadata_filter \cap RecognizedFields /= {}
                            THEN 2 * input.top_k
                            ELSE input.top_k

\* reached: top_k = 2 under the filter {board: "a"}, and 4 candidates were asked for
C22_Witness ==
    /\ op = "query_rag_corpus"
    /\ input.top_k = 2
    /\ input.metadata_filter = [board |-> StrVal(<<"a">>)]
    /\ calls = <<RetrievalCall(input.corpus_id, 2, input.metadata_filter)>>
    /\ calls[1].top_k = 4

\* the comparison rule for one filter field: the board normalization of
\* create_metadata_filter on both sides for board, equality of the trimmed,
\* lower-cased strings for the other fields
EqualUnderRule(key, stored, wanted) ==
    /\ IsStr(stored)
    /\ IsStr(wanted)
    /\ IF key = "board"
       THEN FilterBoard(stored.s) = FilterBoard(wanted.s)
       ELSE StrLower(Strip(stored.s)) = StrLower(Strip(wanted.s))

(* C23: under a filter with at least one recognized field, every result    *)
(* query_rag_corpus keeps has metadata that holds every field of the       *)
(* filter with a value equal to the wanted one under the comparison rule:  *)
(* a candidate without metadata, without one of the fields or differing in *)
(* one of them is not among the results.                                   *)
C23_KeptResultsMatchFilter ==
    (op = "query_rag_corpus" /\ response.status = "success" /\ DOMAIN ActiveFilter /= {}) =>
        \A j \in DOMAIN response.results :
            /\ "metadata" \in DOMAIN response.results[j]
            /\ \A key \in DOMAIN ActiveFilter :
                  /\ key \in DOMAIN response.results[j].metadata
                  /\ EqualUnderRule(key, response.results[j].metadata[key],
                                    input.metadata_filter[key])

(* C24: whatever candidate list the retrieval service returns, also one    *)
(* longer than asked for, and with or without a metadata filter,           *)
(* query_rag_corpus returns no more than top_k results.                    *)
C24_NeverMoreThanTopK ==
    (op = "query_rag_corpus" /\ response.status = "success") =>
        /\ Len(response.results) <= input.top_k
        /\ response.count <= input.top_k

(* C25: query_rag_corpus attaches the note about multiple chunks exactly   *)
(* when two kept results have the same source locator; results without a   *)
(* source locator share none, so with them alone note is None.             *)
C25_NoteIffSharedSource ==
    (op = "query_rag_corpus" /\ response.status = "success") =>
        (response.note /= None
         <=> \E i, j \in DOMAIN response.results :
                /\ i /= j
                /\ response.results[i].source_uri /= None
                /\ response.results[i].source_uri = response.results[j].source_uri)

\* the caller's filter holds no recognized field: it is empty or names unknown fields only
NoRecognizedField == DOMAIN input.metadata_filter \cap RecognizedFields = {}

MatchingResults ==
    SelectSeq([j \in DOMAIN Candidates |-> ResultOf(Candidates[j])],
              LAMBDA r : PassesFilter(r, ActiveFilter))

Min(a, b) == IF a <= b THEN a ELSE b

----------------------------------------------------------------------------
(* SpecSearch: a directory of up to MaxCorpora corpora, each answering the *)
(* query with a list of candidates (possibly empty) or failing, and one    *)
(* search_all_corpora invocation.                                          *)

MaxCorpora == 3       \* most corpora the directory holds

Science == <<"S", "c", "i", "e", "n", "c", "e">>
Math == <<"M", "a", "t", "h">>

\* what the retrieval service may answer for a corpus
RetrievalChoices ==
    {[fails |-> TRUE, contexts |-> <<>>],
     [fails |-> FALSE, contexts |-> <<>>],
     [fails |-> FALSE,
      contexts |-> <<[text |-> <<>>, source_uri |-> Some(UriPlain), relevance_score |-> Some(-1),
                      page_number |-> Some(IntVal(7)),
                      metadata |-> [board |-> StrVal(<<"A">>)]],
                     [text |-> TextPlain, source_uri |-> Some(UriWithPage), relevance_score |-> Some(3)]>>],
     [fails |-> FALSE,
      contexts |-> <<[text |-> TextWithPage, source_uri |-> None, relevance_score |-> None,
                      metadata |-> [board |-> StrVal(<<"a">>)]]>>]}

\* the resource name of the i-th corpus: the first one has id 42
CorpusName(i) == <<"r", "/">> \o IntToStr(41 + i)

\* the directories of exactly n corpora
Directories(n) ==
    {[i \in 1..n |-> [name |-> CorpusName(i), display_name |-> names[i], retrieval |-> retrievals[i]]] :
        names \in [1..n -> {Science, Math}], retrievals \in [1..n -> RetrievalChoices]}

InitSearch ==
    /\ op = "init"
    /\ response = None
    /\ calls = <<>>
    /\ \E n \in 0..MaxCorpora, listing_fails \in BOOLEAN :
          \E corpora \in Directories(n) :
             service = [listing_fails |-> listing_fails, corpora |-> corpora]
    /\ \E top_k \in {1, MaxTopK}, metadata_filter \in {<<>>, [board |-> StrVal(<<"A">>)]} :
          input = Arguments(<<>>, FALSE, metadata_filter, top_k)

NextSearch == SearchAllCorpora \/ QueryRagCorpus

SpecSearch == InitSearch /\ [][NextSearch]_vars

\* the retrieval queries among the external calls of the invocation
RetrievalCalls == SelectSeq(calls, LAMBDA c : c.call = "retrieval_query")

\* the id of the i-th corpus of the directory
IdOf(i) == LastSegment(service.corpora[i].name)

\* the corpora whose retrieval call does not fail
NonFailing == {i \in DOMAIN service.corpora : ~service.corpora[i].retrieval.fails}

\* what query_rag_corpus keeps for the i-th corpus under the invocation's arguments
KeptOf(i) ==
    query_rag_corpus(service.corpora[i].retrieval, IdOf(i), input.query_text,
                     input.top_k, input.metadata_filter).results

(* C5: in search_all_corpora a kept passage of the collection named N with *)
(* id I, whose source locator ends in the file name F and whose page is P, *)
(* carries the citation "[Source: N (I) File: F Page: P]", the closing     *)
(* bracket being its last character.                                       *)
C5_CitationFormat ==
    (op = "search_all_corpora" /\ response.status = "success") =>
        \A i \in DOMAIN response.results :
            LET r == response.results[i]
            IN  (r.source_uri /= None /\ r.source_uri[1] /= <<>> /\ "page_number" \in DOMAIN r) =>
                    r.citation = <<"[", "S", "o", "u", "r", "c", "e", ":", " ">> \o r.corpus_name
                                 \o <<" ", "(">> \o r.corpus_id \o <<")">>
                                 \o <<" ", "F", "i", "l", "e", ":", " ">> \o FileName(r.source_uri[1])
                                 \o <<" ", "P", "a", "g", "e", ":", " ">> \o PyStr(r["page_number"])
                                 \o <<"]">>

(* C6: when the listing succeeds and holds no corpus, search_all_corpora   *)
(* returns status "warning" with a results field equal to the empty list   *)
(* and issues no retrieval query.                                          *)
C6_EmptyCorpusWarning ==
    (op = "search_all_corpora" /\ ~service.listing_fails /\ service.corpora = <<>>) =>
        /\ response.status = "warning"
        /\ \A k \in DOMAIN calls : calls[k].call /= "retrieval_query"
        /\ "results" \in DOMAIN response
        /\ response["results"] = <<>>

(* C7: whichever corpora fail, search_all_corpora queries every corpus in  *)
(* order and returns status "success"; its merged results are exactly the  *)
(* kept passages of the corpora that did not fail, and searched_corpora,   *)
(* corpus_results and citations_summary name no corpus that failed.        *)
C7_PartialFailureIsolation ==
    (op = "search_all_corpora" /\ ~service.listing_fails /\ service.corpora /= <<>>) =>
        LET retrievals == SelectSeq(calls, LAMBDA c : c.call = "retrieval_query")
            failing == {IdOf(i) : i \in DOMAIN service.corpora \ NonFailing}
            keptAt == UNION {{<<i, k>> : k \in DOMAIN KeptOf(i)} : i \in NonFailing}
            plain(r) == [key \in DOMAIN r \ {"corpus_id", "corpus_name", "citation"} |-> r[key]]
            contributing == SelectSeq([i \in DOMAIN service.corpora |-> i],
                                      LAMBDA i : i \in NonFailing /\ KeptOf(i) /= <<>>)
        IN  /\ response.status = "success"
            /\ retrievals = [i \in DOMAIN service.corpora |->
                                RetrievalCall(IdOf(i), input.top_k, input.metadata_filter)]
            /\ Len(response.results) = Cardinality(keptAt)
            /\ response.count = Cardinality(keptAt)
            /\ \A p \in keptAt :
                  \E j \in DOMAIN response.results :
                      /\ response.results[j].corpus_id = IdOf(p[1])
                      /\ response.results[j].corpus_name = service.corpora[p[1]].display_name
                      /\ plain(response.results[j]) = KeptOf(p[1])[p[2]]
            /\ \A j \in DOMAIN response.results : response.results[j].corpus_id \notin failing
            /\ response.searched_corpora = [k \in DOMAIN contributing |->
                                               service.corpora[contributing[k]].display_name]
            /\ \A name \in DOMAIN response.corpus_results :
                  /\ response.corpus_results[name].corpus_id \notin failing
                  /\ \A j \in DOMAIN response.corpus_results[name].results :
                        response.corpus_results[name].results[j].corpus_id \notin failing
            /\ Len(response.citations_summary) = Len(response.searched_corpora)
            /\ \A k \in DOMAIN response.citations_summary :
                  \E i \in NonFailing :
                      response.citations_summary[k] =
                          service.corpora[i].display_name \o <<" ", "(">> \o IdOf(i) \o <<")", ":", " ">>
                          \o IntToStr(Len(KeptOf(i))) \o <<" ", "r", "e", "s", "u", "l", "t", "s">>

\* reached: three corpora, the second fails, the first and third contribute passages
C7_Witness ==
    /\ op = "search_all_corpora"
    /\ Len(service.corpora) = 3
    /\ DOMAIN service.corpora \ NonFailing = {2}
    /\ KeptOf(1) /= <<>> /\ KeptOf(3) /= <<>>
    /\ response.status = "success"
    /\ Len(response.results) = Len(KeptOf(1)) + Len(KeptOf(3))
    /\ Len(response.searched_corpora) = 2

(* C16: if listing the corpora fails, search_all_corpora returns status    *)
(* "error" and attempts no per-corpus query: the listing is the only       *)
(* external call of the invocation.                                        *)
C16_DiscoveryFailureAborts ==
    (op = "search_all_corpora" /\ service.listing_fails) =>
        /\ response.status = "error"
        /\ \A k \in DOMAIN calls : calls[k].call /= "retrieval_query"
        /\ calls = <<[call |-> "list_corpora"]>>
        /\ "results" \notin DOMAIN response

\* reached: the listing failed over a directory whose corpora would have answered
C16_Witness ==
    /\ op = "search_all_corpora"
    /\ service.listing_fails
    /\ Len(service.corpora) >= 2
    /\ \E i \in NonFailing : service.corpora[i].retrieval.contexts /= <<>>
    /\ response.status = "error"
    /\ calls = <<[call |-> "list_corpora"]>>

\* the corpora that did not fail and had passages kept, in discovery order
Contributing ==
    SelectSeq([i \in DOMAIN service.corpora |-> i],
              LAMBDA i : i \in NonFailing /\ KeptOf(i) /= <<>>)

\* the number of merged results that carry the id of the i-th corpus
MergedCount(i) ==
    Cardinality({j \in DOMAIN response.results : response.results[j].corpus_id = IdOf(i)})

(* C19: citations_summary of search_all_corpora has one line per searched  *)
(* corpus, "<name> (<id>): <count> results", with that corpus's own id and *)
(* the number of merged results carrying that id, also when two corpora    *)
(* share a display name.                                                   *)
C19_CitationsSummaryPerCorpus ==
    (op = "search_all_corpora" /\ response.status = "success") =>
        /\ Len(response.citations_summary) = Len(Contributing)
        /\ Len(response.citations_summary) = Len(response.searched_corpora)
        /\ \A k \in DOMAIN response.citations_summary :
              k \in DOMAIN Contributing =>
                  response.citations_summary[k] =
                      service.corpora[Contributing[k]].display_name
                      \o <<" ", "(">> \o IdOf(Contributing[k]) \o <<")", ":", " ">>
                      \o IntToStr(MergedCount(Contributing[k]))
                      \o <<" ", "r", "e", "s", "u", "l", "t", "s">>

\* the kept results of the corpora whose query succeeded, annotated, in listing
\* order and within a corpus in the order query_rag_corpus returned them
KeptInOrder ==
    Flatten([i \in DOMAIN service.corpora |->
                IF i \in NonFailing
                THEN [k \in DOMAIN KeptOf(i) |->
                         Annotated(KeptOf(i)[k], IdOf(i), service.corpora[i].display_name)]
                ELSE <<>>])

\* the relevance score of the k-th of kept, 0 standing for None
ScoreAt(kept, k) == IF kept[k].relevance_score = None THEN 0 ELSE kept[k].relevance_score[1]

\* where the k-th of kept belongs: behind those of higher score and behind
\* those of its own score that come before it
RankOf(kept, k) ==
    1 + Cardinality({j \in DOMAIN kept :
                        ScoreAt(kept, j) > ScoreAt(kept, k)
                        \/ (ScoreAt(kept, j) = ScoreAt(kept, k) /\ j < k)})

(* C21: the merged results of search_all_corpora are the kept results of   *)
(* the successful corpora, each exactly once, by non-increasing relevance  *)
(* score with None counting as 0; results of equal score stay in listing   *)
(* order of their corpora and, within a corpus, in the order of its query. *)
C21_MergedStableByScore ==
    (op = "search_all_corpora" /\ response.status = "success") =>
        LET kept == KeptInOrder
        IN  /\ Len(response.results) = Len(kept)
            /\ \A k \in DOMAIN kept : response.results[RankOf(kept, k)] = kept[k]
            /\ \A j \in DOMAIN response.results :
                  j > 1 => ScoreKey(response.results[j - 1]) >= ScoreKey(response.results[j])

\* reached: the first corpus returned scores -1 and 3, the second and third a
\* passage without score each; merged: 3, the two without score in listing
\* order, then -1
C21_Witness ==
    /\ op = "search_all_corpora"
    /\ response.status = "success"
    /\ Len(service.corpora) = 3
    /\ LET kept == KeptInOrder
       IN  /\ Len(kept) = 4
           /\ [k \in 1..4 |-> kept[k].relevance_score] = <<Some(-1), Some(3), None, None>>
           /\ [k \in 1..4 |-> RankOf(kept, k)] = <<4, 1, 2, 3>>
    /\ [j \in DOMAIN response.results |-> response.results[j].corpus_id]
       = <<IdOf(1), IdOf(2), IdOf(3), IdOf(1)>>

\* the display name of the i-th corpus
DisplayName(i) == service.corpora[i].display_name

\* the summary line of a corpus with the given name, id and number of results
LineFor(name, id, n) ==
    name \o <<" ", "(">> \o id \o <<")", ":", " ">> \o IntToStr(n)
    \o <<" ", "r", "e", "s", "u", "l", "t", "s">>

(* C27: in search_all_corpora a corpus is entered in searched_corpora,     *)
(* corpus_results and citations_summary only if its query succeeded and    *)
(* kept at least one passage; a corpus whose query succeeds with nothing   *)
(* kept is left out like one whose query failed, and when no corpus keeps  *)
(* anything the three are empty while status is "success".                 *)
C27_OnlyContributingCorporaListed ==
    (op = "search_all_corpora" /\ ~service.listing_fails /\ service.corpora /= <<>>) =>
        /\ response.status = "success"
        /\ response.searched_corpora = [k \in DOMAIN Contributing |-> DisplayName(Contributing[k])]
        /\ DOMAIN response.corpus_results = {DisplayName(i) : i \in Range(Contributing)}
        /\ \A name \in DOMAIN response.corpus_results :
              \E i \in Range(Contributing) :
                  /\ DisplayName(i) = name
                  /\ response.corpus_results[name].corpus_id = IdOf(i)
                  /\ response.corpus_results[name].count = Len(KeptOf(i))
                  /\ response.corpus_results[name].count >= 1
        /\ Len(response.citations_summary) = Len(Contributing)
        /\ \A k \in DOMAIN response.citations_summary :
              \E i \in Range(Contributing) :
                  response.citations_summary[k] = LineFor(DisplayName(i), IdOf(i), Len(KeptOf(i)))

\* reached: of two corpora one failed and the other answered without a passage;
\* the search succeeded with nothing listed
C27_Witness ==
    /\ op = "search_all_corpora"
    /\ ~service.listing_fails
    /\ Len(service.corpora) = 2
    /\ service.corpora[1].retrieval = [fails |-> FALSE, contexts |-> <<>>]
    /\ service.corpora[2].retrieval.fails
    /\ Len(RetrievalCalls) = 2
    /\ response.status = "success"
    /\ response.searched_corpora = <<>>
    /\ DOMAIN response.corpus_results = {}
    /\ response.citations_summary = <<>>
    /\ response.results = <<>>

----------------------------------------------------------------------------
(* SpecSchema: one tag set, drawn field by field, and one                  *)
(* validate_metadata or create_metadata_filter invocation on it.           *)

\* the dictionaries holding key with one of the values, or not holding it
Optional(key, values) == {<<>>} \cup {key :> v : v \in values}

TagSets ==
    {board @@ grade @@ subject @@ content_type @@ difficulty @@ term @@ shelf @@ capital :
        board \in Optional("board", {StrVal(<<"c", "b", "s", "e", " ">>), IntVal(5)}),
        grade \in Optional("grade", {StrVal(<<"1", "0">>), IntVal(10)}),
        subject \in Optional("subject", {StrVal(Math)}),
        content_type \in Optional("content_type", {StrVal(<<"t", "h", "e", "o", "r", "y">>), StrVal(<<"q", "u", "i", "z">>)}),
        difficulty \in Optional("difficulty", {StrVal(<<"b", "a", "s", "i", "c">>), StrVal(<<"h", "a", "r", "d">>)}),
        term \in Optional("term", {StrVal(<<" ", "1">>), IntVal(1)}),
        shelf \in Optional("shelf", {StrVal(<<"x">>)}),
        capital \in Optional("Board", {StrVal(<<"C", "B", "S", "E">>)})}

InitSchema ==
    /\ op = "init"
    /\ response = None
    /\ calls = <<>>
    /\ service = OneCorpus(<<>>)
    /\ \E metadata \in TagSets, strict \in BOOLEAN :
          input = Arguments(metadata, strict, metadata, 1)

NextSchema == ValidateMetadata \/ CreateMetadataFilter

SpecSchema == InitSchema /\ [][NextSchema]_vars

\* the required fields the tag set lacks
MissingRequired == {f \in Range(REQUIRED_METADATA_FIELDS) : f \notin DOMAIN input.metadata}

\* every recognized field the tag set holds is a string and, in strict mode,
\* content_type and difficulty hold allowed values
OtherwiseWellTyped ==
    /\ \A f \in DOMAIN input.metadata \cap RecognizedFields : IsStr(input.metadata[f])
    /\ input.strict =>
          /\ "content_type" \in DOMAIN input.metadata =>
                input.metadata["content_type"].s \in ALLOWED_CONTENT_TYPES
          /\ "difficulty" \in DOMAIN input.metadata =>
                input.metadata["difficulty"].s \in ALLOWED_DIFFICULTY_LEVELS

(* C10: validate_metadata on a tag set that lacks k >= 1 of the required   *)
(* fields board, grade, subject and is otherwise well-typed returns        *)
(* valid = false, normalized = None and exactly k errors, one per missing  *)
(* field; the tag set {subject: "Math"} gives exactly two errors.          *)
C10_RequiredFieldGate ==
    (op = "validate_metadata" /\ OtherwiseWellTyped /\ MissingRequired /= {}) =>
        /\ response.valid = FALSE
        /\ response.normalized = None
        /\ Len(response.errors) = Cardinality(MissingRequired)
        /\ {response.errors[i] : i \in DOMAIN response.errors}
           = {[kind |-> "missing_required", field |-> f] : f \in MissingRequired}
        /\ input.metadata = [subject |-> StrVal(Math)] => Len(response.errors) = 2

\* reached: the tag set {subject: "Math"} was validated and two errors came back
C10_Witness ==
    /\ op = "validate_metadata"
    /\ input.metadata = [subject |-> StrVal(Math)]
    /\ response.valid = FALSE
    /\ Len(response.errors) = 2
    /\ response.normalized = None

\* the keys of the tag set that the schema does not know
UnknownKeys == DOMAIN input.metadata \ RecognizedFields

\* the tag set without its unknown keys
KnownPart == [f \in DOMAIN input.metadata \cap RecognizedFields |-> input.metadata[f]]

(* C13: unknown keys in the input of validate_metadata produce a warning   *)
(* and never an error, so valid and errors are what they are without them, *)
(* and the keys of normalized are recognized field names only.             *)
C13_UnknownKeysWarnOnly ==
    op = "validate_metadata" =>
        /\ UnknownKeys /= {} =>
              \E i \in DOMAIN response.warnings :
                  response.warnings[i] = [kind |-> "unknown_fields", fields |-> UnknownKeys]
        /\ \A i \in DOMAIN response.errors : response.errors[i].field \notin UnknownKeys
        /\ response.valid = validate_metadata(KnownPart, input.strict).valid
        /\ response.errors = validate_metadata(KnownPart, input.strict).errors
        /\ response.normalized /= None => DOMAIN response.normalized[1] \subseteq RecognizedFields

\* reached: a valid tag set with an unknown key, warned about and left out of normalized
C13_Witness ==
    /\ op = "validate_metadata"
    /\ "shelf" \in DOMAIN input.metadata
    /\ response.valid
    /\ \E i \in DOMAIN response.warnings : response.warnings[i].kind = "unknown_fields"
    /\ "shelf" \notin DOMAIN response.normalized[1]

(* C14: for every input of validate_metadata, valid is true exactly when   *)
(* errors is empty, and normalized is a mapping exactly when errors is     *)
(* empty and None otherwise; warnings alone never make the result invalid. *)
C14_ValidIffNoErrors ==
    op = "validate_metadata" =>
        /\ response.valid <=> response.errors = <<>>
        /\ response.normalized /= None <=> response.errors = <<>>
        /\ response.errors = <<>> => response.normalized = Some(response.normalized[1])
        /\ response.errors /= <<>> => response.normalized = None
        /\ (response.warnings /= <<>> /\ response.errors = <<>>) => response.valid

\* reached: a result with warnings and no errors, valid and with a normalized mapping
C14_Witness ==
    /\ op = "validate_metadata"
    /\ response.warnings /= <<>>
    /\ response.errors = <<>>
    /\ response.valid
    /\ response.normalized /= None

\* the errors validate_metadata reported about one field
ErrorsAbout(field) == SelectSeq(response.errors, LAMBDA e : e.field = field)

\* the field is present with a string outside the allowed set
OutsideAllowed(field, allowed) ==
    /\ field \in DOMAIN input.metadata
    /\ IsStr(input.metadata[field])
    /\ input.metadata[field].s \notin allowed

\* the field is present with a string
StringGiven(field) == field \in DOMAIN input.metadata /\ IsStr(input.metadata[field])

(* C26: validate_metadata checks content_type and difficulty against their *)
(* allowed values in strict mode only: with strict = false every string    *)
(* value of either field passes without an error about it; with strict =   *)
(* true a content_type outside theory, exercises, solutions, examples or a *)
(* difficulty outside basic, medium, advanced yields an error and valid =  *)
(* false, and a value inside the set yields none.                          *)
C26_EnumCheckOnlyWhenStrict ==
    op = "validate_metadata" =>
        /\ ~input.strict =>
              /\ StringGiven("content_type") => ErrorsAbout("content_type") = <<>>
              /\ StringGiven("difficulty") => ErrorsAbout("difficulty") = <<>>
        /\ input.strict =>
              /\ OutsideAllowed("content_type", ALLOWED_CONTENT_TYPES)
                 => (Len(ErrorsAbout("content_type")) = 1 /\ ~response.valid)
              /\ OutsideAllowed("difficulty", ALLOWED_DIFFICULTY_LEVELS)
                 => (Len(ErrorsAbout("difficulty")) = 1 /\ ~response.valid)
              /\ (StringGiven("content_type") /\ ~OutsideAllowed("content_type", ALLOWED_CONTENT_TYPES))
                 => ErrorsAbout("content_type") = <<>>
              /\ (StringGiven("difficulty") /\ ~OutsideAllowed("difficulty", ALLOWED_DIFFICULTY_LEVELS))
                 => ErrorsAbout("difficulty") = <<>>

\* reached: a complete tag set with content_type "quiz" and difficulty "basic" was
\* validated in strict mode and rejected for the content_type alone
C26_Witness ==
    /\ op = "validate_metadata"
    /\ input.strict
    /\ MissingRequired = {}
    /\ OutsideAllowed("content_type", ALLOWED_CONTENT_TYPES)
    /\ StringGiven("difficulty") /\ ~OutsideAllowed("difficulty", ALLOWED_DIFFICULTY_LEVELS)
    /\ ~response.valid
    /\ Len(response.errors) = 1
    /\ response.errors[1].field = "content_type"
    /\ validate_metadata(input.metadata, FALSE).valid

----------------------------------------------------------------------------
(* SpecImport: one tag set (possibly none) and an import service that      *)
(* imports or raises; documents are imported and tag sets validated.       *)

InitImport ==
    /\ op = "init"
    /\ response = None
    /\ calls = <<>>
    /\ \E import_fails \in BOOLEAN :
          service = OneCorpus(<<>>) @@ [import_fails |-> import_fails, imported |-> <<>>]
    /\ \E metadata \in TagSets, strict \in BOOLEAN :
          input = Arguments(metadata, strict, <<>>, 1) @@ [gcs_uri |-> UriPlain]

NextImport == ImportDocumentToCorpus \/ ValidateMetadata

SpecImport == InitImport /\ [][NextImport]_vars

\* metadata was supplied and validate_metadata(rag_metadata, strict=False) rejects it
SuppliedInvalid ==
    DOMAIN input.metadata /= {} /\ ~validate_metadata(input.metadata, FALSE).valid

(* C15: whenever the metadata supplied to import_document_to_corpus fails  *)
(* validation, rag.import_files is never issued (nothing is ever imported) *)
(* and the result has status "error" with an error_message holding the     *)
(* validation errors joined together.                                      *)
C15_IngestionGate ==
    SuppliedInvalid =>
        /\ service.imported = <<>>
        /\ op = "import_document_to_corpus" =>
              /\ calls = <<>>
              /\ response.status = "error"
              /\ validate_metadata(input.metadata, FALSE).errors /= <<>>
              /\ response.error_message.joined
                 = JoinErrors(validate_metadata(input.metadata, FALSE).errors)

\* reached: the import of a document tagged {subject: "Math"} was refused
C15_Witness ==
    /\ op = "import_document_to_corpus"
    /\ input.metadata = [subject |-> StrVal(Math)]
    /\ response.status = "error"
    /\ Len(response.error_message.joined) = 3
    /\ calls = <<>>
    /\ service.imported = <<>>

\* the tag set validate_metadata(rag_metadata, strict=False) accepts the input as
AcceptedTags == validate_metadata(input.metadata, FALSE)

(* C29: import_document_to_corpus validates the metadata only when it is   *)
(* non-empty: with None or an empty mapping nothing is checked and         *)
(* rag.import_files is called without metadata; when the metadata is       *)
(* validated and valid, the call carries the normalized tag set, holding   *)
(* recognized fields with trimmed string values only, never the caller's   *)
(* input as given.                                                         *)
C29_ImportSendsNormalizedMetadata ==
    op = "import_document_to_corpus" =>
        /\ DOMAIN input.metadata = {} =>
              /\ calls = <<[call |-> "import_files", corpus_id |-> input.corpus_id,
                            paths |-> <<input.gcs_uri>>]>>
              /\ "metadata_validation" \notin DOMAIN response
              /\ response.status = IF service.import_fails THEN "error" ELSE "success"
        /\ (DOMAIN input.metadata /= {} /\ AcceptedTags.valid) =>
              /\ Len(calls) = 1
              /\ calls[1].call = "import_files"
              /\ calls[1].rag_metadata = AcceptedTags.normalized[1]
              /\ DOMAIN calls[1].rag_metadata = DOMAIN input.metadata \cap RecognizedFields
              /\ \A field \in DOMAIN calls[1].rag_metadata :
                    /\ IsStr(calls[1].rag_metadata[field])
                    /\ Strip(calls[1].rag_metadata[field].s) = calls[1].rag_metadata[field].s
                    /\ field /= "board" =>
                          calls[1].rag_metadata[field].s = Strip(input.metadata[field].s)
              /\ calls[1].rag_metadata.board.s = ValidateBoard(input.metadata.board.s)

\* reached: a document tagged with board "cbse ", an unknown field shelf and a
\* differently spelled key Board was imported with board "CBSE" and without both
C29_Witness ==
    /\ op = "import_document_to_corpus"
    /\ AcceptedTags.valid
    /\ {"shelf", "Board", "term"} \subseteq DOMAIN input.metadata
    /\ input.metadata.board = StrVal(<<"c", "b", "s", "e", " ">>)
    /\ Len(calls) = 1
    /\ calls[1].rag_metadata.board = StrVal(<<"C", "B", "S", "E">>)
    /\ calls[1].rag_metadata.term = StrVal(<<"1">>)
    /\ DOMAIN calls[1].rag_metadata \cap {"shelf", "Board"} = {}
    /\ calls[1].rag_metadata /= input.metadata
    /\ response.status = "success"

----------------------------------------------------------------------------
(* SpecNamed: a directory of up to MaxCorpora corpora whose display names  *)
(* may coincide up to case and surrounding white space or be empty, and    *)
(* the three query operations invoked on it.                               *)

ScienceLoose == <<" ", "s", "c", "i", "e", "n", "c", "e">>
ScienceShouted == <<" ", "S", "C", "I", "E", "N", "C", "E", " ">>

\* what the retrieval service may answer for a corpus: it raises or finds one passage
NamedRetrievals == {r \in RetrievalChoices : r.fails \/ Len(r.contexts) = 1}

NamedDirectories(n) ==
    {[i \in 1..n |-> [name |-> CorpusName(i), display_name |-> names[i], retrieval |-> retrievals[i]]] :
        names \in [1..n -> {Science, ScienceLoose, <<>>}], retrievals \in [1..n -> NamedRetrievals]}

\* the names asked for: none, one that matches up to case and white space,
\* one that no corpus has, and the empty one
CorpusNames == {None, Some(ScienceShouted), Some(Math), Some(<<>>)}

InitNamed ==
    /\ op = "init"
    /\ response = None
    /\ calls = <<>>
    /\ \E n \in 0..MaxCorpora, listing_fails \in BOOLEAN :
          \E corpora \in NamedDirectories(n) :
             service = [listing_fails |-> listing_fails, corpora |-> corpora]
    /\ \E corpus_name \in CorpusNames, metadata_filter \in {<<>>, [board |-> StrVal(<<"A">>)]} :
          input = Arguments(<<>>, FALSE, metadata_filter, 1) @@ [corpus_name |-> corpus_name]

NextNamed == SearchCorpusByName \/ SearchAllCorpora \/ QueryRagCorpus

SpecNamed == InitNamed /\ [][NextNamed]_vars

QueryOperations == {"query_rag_corpus", "search_all_corpora", "search_corpus_by_name"}

(* C17: whatever the listing and the retrieval service do (answer, raise,  *)
(* hold corpora without a display name), query_rag_corpus,                 *)
(* search_all_corpora and search_corpus_by_name return a dictionary with a *)
(* status among success, error and warning and with a message.             *)
C17_NoErrorEscapes ==
    op \in QueryOperations =>
        /\ {"status", "message"} \subseteq DOMAIN response
        /\ response.status \in {"success", "error", "warning"}
        /\ "text" \in DOMAIN response.message

\* reached: the corpus found by name raised on retrieval and an error was returned
C17_Witness ==
    /\ op = "search_corpus_by_name"
    /\ ~service.listing_fails
    /\ Len(RetrievalCalls) = 1
    /\ RetrievalFor(service, RetrievalCalls[1].corpus_id).fails
    /\ response.status = "error"
    /\ "message" \in DOMAIN response

(* C18: every dictionary with status "error" that query_rag_corpus,        *)
(* search_all_corpora or search_corpus_by_name returns has an              *)
(* error_message next to its message.                                      *)
C18_ErrorsCarryCause ==
    (op \in QueryOperations /\ response.status = "error") =>
        "error_message" \in DOMAIN response

\* the corpora whose display name is the name asked for, up to case and
\* surrounding white space
Matching ==
    {i \in DOMAIN service.corpora :
        /\ service.corpora[i].display_name /= <<>>
        /\ StrLower(Strip(service.corpora[i].display_name)) = StrLower(Strip(input.corpus_name[1]))}

FirstMatching == CHOOSE i \in Matching : \A j \in Matching : i <= j

(* C20: search_corpus_by_name compares the name with the display names     *)
(* without regard to case and surrounding white space; with a match it     *)
(* issues exactly one retrieval query, to the first matching corpus in     *)
(* listing order, and returns that query's result; without one it issues   *)
(* no retrieval query and returns an error that differs from the one it    *)
(* returns when the listing failed, which issues no retrieval query        *)
(* either.                                                                 *)
C20_NamedLookupFirstMatch ==
    (op = "search_corpus_by_name" /\ input.corpus_name /= None) =>
        IF service.listing_fails
        THEN /\ RetrievalCalls = <<>>
             /\ response = NamedListError(input.corpus_name)
        ELSE IF Matching /= {}
        THEN /\ RetrievalCalls = <<RetrievalCall(IdOf(FirstMatching), RAG_DEFAULT_TOP_K,
                                                 input.metadata_filter)>>
             /\ response.corpus_id = IdOf(FirstMatching)
             /\ response = query_rag_corpus(service.corpora[FirstMatching].retrieval,
                                            IdOf(FirstMatching), input.query_text,
                                            RAG_DEFAULT_TOP_K, input.metadata_filter)
        ELSE /\ RetrievalCalls = <<>>
             /\ response.status = "error"
             /\ response.message.text /= NamedListError(input.corpus_name).message.text
             /\ DOMAIN response /= DOMAIN NamedListError(input.corpus_name)

\* reached: " SCIENCE " was asked for, the first corpus has no display name,
\* the second is " science" and the third "Science", and the second was queried
C20_Witness ==
    /\ op = "search_corpus_by_name"
    /\ ~service.listing_fails
    /\ input.corpus_name = Some(ScienceShouted)
    /\ Len(service.corpora) = 3
    /\ service.corpora[1].display_name = <<>>
    /\ service.corpora[2].display_name = ScienceLoose
    /\ service.corpora[3].display_name = Science
    /\ Matching = {2, 3}
    /\ RetrievalCalls = <<RetrievalCall(IdOf(2), RAG_DEFAULT_TOP_K, input.metadata_filter)>>
    /\ response.status = "success"
    /\ response.corpus_id = IdOf(2)

=============================================================================
